---- MODULE Spec2Model ----
(***************************************************************************)
(* A model of music21's Stream (src/music21/stream.py): the element list,  *)
(* the sites of the elements, the cached aggregates and the isSorted and   *)
(* isFlat flags, under insert, append, pop, sorted, flat and the other     *)
(* operations of the class.                                                *)
(*                                                                         *)
(* Objects are integers: a Stream is a positive integer, a leaf (a note, a *)
(* clef) a negative one, and 0 stands for None (no parent, the site that   *)
(* holds the native offset).  An optional value is a sequence: <<>> is     *)
(* None, <<v>> is the value v.                                             *)
(***************************************************************************)
EXTENDS Integers, Sequences, FiniteSets, TLC

\* The number of operations of a run; each may create one Stream.
MaxOps == 2

\* Streams 1 and 2 are built by the caller; the others are results.
StreamIds == 1 .. (2 + MaxOps)
\* Leaf -1 is a Note of quarterLength 2 and priority 1, leaf -2 a Clef without
\* duration, leaf -3 a Note of quarterLength 1 with the priority left as it is.
BaseLeaves == {-1, -2, -3}
\* copy.deepcopy makes at most MaxCopies copies of each of them: the copies of
\* leaf b are b - 3, b - 6, ...
MaxCopies == 2
Leaves == (-3 * (MaxCopies + 1)) .. -1
\* the leaf that leaf o is a copy of (itself for -1, -2, -3)
Base(o) == -((((-o) - 1) % 3) + 1)
Objs == Leaves \cup StreamIds
Offsets == {0, 1}

LeafDuration ==
    [o \in Leaves |-> IF Base(o) = -1 THEN <<2>> ELSE IF Base(o) = -2 THEN <<>> ELSE <<1>>]
NativeOffset == [o \in Objs |-> IF o < 0 /\ Base(o) = -1 THEN 1 ELSE 0]
Kind(o) == IF o > 0 THEN "Stream" ELSE IF Base(o) = -2 THEN "Clef" ELSE "Note"
IsStream(o) == o > 0

VARIABLES
    elements,          \* list storage: list identity -> sequence of objects
    ref,               \* Stream -> identity of the list its _elements names
    sites,             \* object -> (site -> offset); site 0 is None
    parent,            \* object -> its current parent (0: None)
    isSorted, isFlat,  \* Stream -> BOOLEAN
    cache,             \* Stream -> the _cache entries
    unlinkedDuration,  \* Stream -> optional explicit duration
    alloc,             \* Streams 1..alloc exist
    hist,              \* the operations performed, with their arguments
    score              \* the Stream that makeMeasures and makeTies work on

streamVars == <<elements, ref, sites, parent, isSorted, isFlat, cache,
                unlinkedDuration, alloc, hist>>

vars == <<elements, ref, sites, parent, isSorted, isFlat, cache,
          unlinkedDuration, alloc, hist, score>>

\* no measures are being made
NoScore == [phase |-> "none"]

EmptyCache == [HighestOffset |-> <<>>, HighestTime |-> <<>>,
               LowestOffset |-> <<>>, Duration |-> <<>>]

\* The program state as one value, so that an operation is a function on it
\* and operations can call each other.  err: an exception was raised.
Cur == [elements |-> elements, ref |-> ref, sites |-> sites, parent |-> parent,
        isSorted |-> isSorted, isFlat |-> isFlat, cache |-> cache,
        unlinkedDuration |-> unlinkedDuration, alloc |-> alloc, err |-> FALSE]

ElementsOf(st, s) == st.elements[st.ref[s]]
Raise(st) == [st EXCEPT !.err = TRUE]
\* the value x under the name that F gives it: F's body may use it many times
Bind(x, F(_)) == F(x)

----------------------------------------------------------------------------
\* Music21Object: sites, parent and the offset property

HasSite(st, o, s) == s \in DOMAIN st.sites[o]
getOffsetBySite(st, o, s) == st.sites[o][s]
locationsAdd(st, o, s, off) == [st EXCEPT !.sites[o] = (s :> off) @@ @]
setParent(st, o, s) == [st EXCEPT !.parent[o] = s]
\* element.offset: the offset at the current parent's site
offsetProperty(st, o) ==
    IF HasSite(st, o, st.parent[o]) THEN <<st.sites[o][st.parent[o]]>> ELSE <<>>

----------------------------------------------------------------------------
\* Stream._elementsChanged
_elementsChanged(st, s) ==
    [st EXCEPT !.isSorted[s] = FALSE,
               !.isFlat[s] = \A i \in 1 .. Len(ElementsOf(st, s)) :
                                 ~IsStream(ElementsOf(st, s)[i]),
               !.cache[s] = EmptyCache]

\* StreamIterator: one full iteration sets the parent of every element
StreamIterator(st, s) ==
    [st EXCEPT !.parent = [o \in Objs |->
        IF \E i \in 1 .. Len(ElementsOf(st, s)) : ElementsOf(st, s)[i] = o
        THEN s ELSE @[o]]]

----------------------------------------------------------------------------
\* The cached aggregates.  Each getter returns [v |-> optional value,
\* st |-> state after the call]; v = <<>> with st.err when it raises.

RECURSIVE _getHighestTime(_, _), _getDuration(_, _), quarterLength(_, _),
          HighestTimeLoop(_, _, _, _)

\* element.duration.quarterLength when both attributes exist, else <<>>
quarterLength(st, o) ==
    IF IsStream(o) THEN _getDuration(st, o)
    ELSE [v |-> LeafDuration[o], st |-> st]

_getDuration(st, s) ==
    IF st.unlinkedDuration[s] # <<>> THEN [v |-> st.unlinkedDuration[s], st |-> st]
    ELSE IF st.cache[s].Duration # <<>> THEN [v |-> st.cache[s].Duration, st |-> st]
    ELSE Bind(_getHighestTime(st, s), LAMBDA r :
             IF r.st.err THEN r
             ELSE [v |-> r.v, st |-> [r.st EXCEPT !.cache[s].Duration = r.v]])

\* offset of e in s plus the quarterLength q read for it, or a raise
EndTime(q, e, s) ==
    IF q.st.err THEN <<>>
    ELSE IF ~HasSite(q.st, e, s) THEN <<>>
    ELSE <<getOffsetBySite(q.st, e, s) + (IF q.v = <<>> THEN 0 ELSE q.v[1])>>

\* the loop of the unsorted branch, from element i on, max so far in mx
HighestTimeLoop(st, s, i, mx) ==
    IF i > Len(ElementsOf(st, s)) THEN [v |-> mx, st |-> st]
    ELSE Bind(quarterLength(setParent(st, ElementsOf(st, s)[i], s),
                            ElementsOf(st, s)[i]),
              LAMBDA q :
                 IF q.st.err THEN [v |-> <<>>, st |-> q.st]
                 ELSE IF EndTime(q, ElementsOf(st, s)[i], s) = <<>>
                 THEN [v |-> <<>>, st |-> Raise(q.st)]
                 ELSE HighestTimeLoop(q.st, s, i + 1,
                         IF mx = <<>> \/ EndTime(q, ElementsOf(st, s)[i], s)[1] > mx[1]
                         THEN EndTime(q, ElementsOf(st, s)[i], s) ELSE mx))

HighestTimeComputed(st, s) ==
    IF Len(ElementsOf(st, s)) = 0 THEN [v |-> <<0>>, st |-> st]
    ELSE IF st.isSorted[s] THEN
        Bind(quarterLength(st, ElementsOf(st, s)[Len(ElementsOf(st, s))]),
             LAMBDA q :
                IF q.st.err THEN [v |-> <<>>, st |-> q.st]
                ELSE IF EndTime(q, ElementsOf(st, s)[Len(ElementsOf(st, s))], s) = <<>>
                THEN [v |-> <<>>, st |-> Raise(q.st)]
                ELSE [v |-> EndTime(q, ElementsOf(st, s)[Len(ElementsOf(st, s))], s),
                      st |-> q.st])
    ELSE HighestTimeLoop(st, s, 1, <<>>)

_getHighestTime(st, s) ==
    IF st.cache[s].HighestTime # <<>> THEN [v |-> st.cache[s].HighestTime, st |-> st]
    ELSE Bind(HighestTimeComputed(st, s), LAMBDA r :
             IF r.st.err THEN r
             ELSE [v |-> r.v, st |-> [r.st EXCEPT !.cache[s].HighestTime = r.v]])

\* max (hi = TRUE) or min of element.offset over the elements from i on
RECURSIVE OffsetLoop(_, _, _, _, _)
OffsetLoop(st, s, hi, i, acc) ==
    IF i > Len(ElementsOf(st, s)) THEN acc
    ELSE LET o == offsetProperty(st, ElementsOf(st, s)[i]) IN
         IF o = <<>> THEN <<>>
         ELSE OffsetLoop(st, s, hi, i + 1,
                IF acc = <<>> \/ (hi /\ o[1] > acc[1]) \/ (~hi /\ o[1] < acc[1])
                THEN o ELSE acc)

\* the value the property computes when nothing is cached
HighestOffsetComputed(st, s) ==
    IF Len(ElementsOf(st, s)) = 0 THEN <<0>>
    ELSE IF st.isSorted[s]
    THEN offsetProperty(st, ElementsOf(st, s)[Len(ElementsOf(st, s))])
    ELSE OffsetLoop(st, s, TRUE, 1, <<>>)

_getHighestOffset(st, s) ==
    IF st.cache[s].HighestOffset # <<>>
    THEN [v |-> st.cache[s].HighestOffset, st |-> st]
    ELSE Bind(HighestOffsetComputed(st, s), LAMBDA v :
             IF v = <<>> THEN [v |-> <<>>, st |-> Raise(st)]
             ELSE [v |-> v, st |-> [st EXCEPT !.cache[s].HighestOffset = v]])

LowestOffsetComputed(st, s) ==
    IF Len(ElementsOf(st, s)) = 0 THEN <<0>>
    ELSE IF st.isSorted[s] THEN offsetProperty(st, ElementsOf(st, s)[1])
    ELSE OffsetLoop(st, s, FALSE, 1, <<>>)

_getLowestOffset(st, s) ==
    IF st.cache[s].LowestOffset # <<>>
    THEN [v |-> st.cache[s].LowestOffset, st |-> st]
    ELSE Bind(LowestOffsetComputed(st, s), LAMBDA v :
             IF v = <<>> THEN [v |-> <<>>, st |-> Raise(st)]
             ELSE [v |-> v, st |-> [st EXCEPT !.cache[s].LowestOffset = v]])

----------------------------------------------------------------------------
\* insert as it would be without the comparison with highestTime: isSorted
\* is kept as it was
insert_keepsSorted(st, s, off, item) ==
    [_elementsChanged([st EXCEPT !.sites[item] = (s :> off) @@ @,
                                 !.parent[item] = s,
                                 !.elements[st.ref[s]] = Append(@, item)], s)
        EXCEPT !.isSorted[s] = st.isSorted[s]]

\* the highestTime that insert reads when isSorted is True
InsertRead(st1, s) ==
    IF st1.isSorted[s] THEN _getHighestTime(st1, s) ELSE [v |-> <<>>, st |-> st1]

\* the rest of insert, once the read r has been made in a Stream whose
\* isSorted was wasSorted
InsertStore(r, wasSorted, s, off, item) ==
    IF r.st.err THEN r.st
    ELSE [_elementsChanged([r.st EXCEPT !.elements[r.st.ref[s]] = Append(@, item)], s)
             EXCEPT !.isSorted[s] = wasSorted /\ r.v[1] <= off]

\* insert as it would be with one offset per object instead of one per site
insert_oneOffset(st, s, off, item) ==
    InsertStore(InsertRead(setParent(locationsAdd(
                    [st EXCEPT !.sites[item] = [x \in DOMAIN @ |-> off]],
                    item, s, off), item, s), s),
                st.isSorted[s], s, off, item)

\* Stream.insert(offset, item)
insert(st, s, off, item) ==
    InsertStore(InsertRead(setParent(locationsAdd(st, item, s, off), item, s), s),
                st.isSorted[s], s, off, item)

\* Stream.append(others): others is a list of objects
RECURSIVE AppendLoop(_, _, _, _, _)
AppendLoop(st, s, others, i, highestTime) ==
    IF i > Len(others) \/ st.err THEN st
    ELSE Bind(quarterLength(
                  [st EXCEPT !.sites[others[i]] = (s :> highestTime) @@ @,
                             !.parent[others[i]] = s,
                             !.elements[st.ref[s]] = Append(@, others[i])],
                  others[i]),
              LAMBDA q :
                 AppendLoop(q.st, s, others, i + 1,
                            highestTime + (IF q.v = <<>> THEN 0 ELSE q.v[1])))

\* the rest of append, once highestTime has been read as r
AppendStore(r, s, others) ==
    IF r.st.err THEN r.st
    ELSE Bind(AppendLoop(r.st, s, others, 1, r.v[1]), LAMBDA st1 :
             IF st1.err THEN st1
             ELSE [_elementsChanged(st1, s) EXCEPT !.isSorted[s] = st1.isSorted[s]])

append(st, s, others) == AppendStore(_getHighestTime(st, s), s, others)

\* list.insert(pos, item) with pos counted from 0
ListInsert(seq, pos, item) ==
    SubSeq(seq, 1, pos) \o <<item>> \o SubSeq(seq, pos + 1, Len(seq))
ListRemove(seq, i) == SubSeq(seq, 1, i - 1) \o SubSeq(seq, i + 1, Len(seq))

\* Stream.insertAtIndex(pos, item)
insertAtIndex(st, s, pos, item) ==
    _elementsChanged([st EXCEPT !.sites[item] = (s :> getOffsetBySite(st, item, 0)) @@ @,
                                !.parent[item] = s,
                                !.elements[st.ref[s]] = ListInsert(@, pos, item)], s)

\* Stream.__setitem__(key, value), key counted from 1 here
__setitem__(st, s, key, value) ==
    [_elementsChanged([st EXCEPT !.elements[st.ref[s]][key] = value], s) EXCEPT
        !.isFlat[s] = IF IsStream(value) THEN FALSE ELSE st.isFlat[s]]

\* Stream.__delitem__(key) and Stream.pop(index), counted from 1 here
__delitem__(st, s, key) ==
    _elementsChanged([st EXCEPT !.elements[st.ref[s]] = ListRemove(@, key)], s)

pop(st, s, index) ==
    _elementsChanged([st EXCEPT !.elements[st.ref[s]] = ListRemove(@, index)], s)

\* Stream._setElements(value) where value is the list another Stream holds
_setElements(st, s, src) ==
    _elementsChanged([st EXCEPT !.ref[s] = st.ref[src]], s)

\* Stream.shiftElements(offset)
RECURSIVE ShiftLoop(_, _, _, _)
ShiftLoop(st, s, d, i) ==
    IF i > Len(ElementsOf(st, s)) \/ st.err THEN st
    ELSE IF ~HasSite(st, ElementsOf(st, s)[i], s) THEN Raise(st)
    ELSE ShiftLoop([st EXCEPT !.parent[ElementsOf(st, s)[i]] = s,
                              !.sites[ElementsOf(st, s)[i]][s] = @ + d], s, d, i + 1)

shiftElements(st, s, d) ==
    Bind(ShiftLoop(st, s, d, 1), LAMBDA st1 :
        IF st1.err THEN st1 ELSE _elementsChanged(st1, s))

----------------------------------------------------------------------------
\* Derivations: each returns the state in which Stream st.alloc + 1 is the result

CLASS_SORT_ORDER ==
    <<"Clef", "TempoMark", "KeySignature", "TimeSignature", "Dynamic", "GeneralNote">>

priority == [o \in Objs |-> IF o < 0 /\ Base(o) = -1 THEN 1 ELSE 0]

\* the comparison as it would be without "or cmp(x.priority, y.priority)"
CmpLeq_offsetOnly(st, s, x, y) ==
    getOffsetBySite(st, x, s) <= getOffsetBySite(st, y, s)

\* cmp(x.getOffsetBySite(self), y.getOffsetBySite(self)) or cmp(x.priority, y.priority) <= 0
CmpLeq(st, s, x, y) ==
    \/ getOffsetBySite(st, x, s) < getOffsetBySite(st, y, s)
    \/ /\ getOffsetBySite(st, x, s) = getOffsetBySite(st, y, s)
       /\ priority[x] <= priority[y]

\* list.sort(cmp): a stable sort
RECURSIVE SortInsert(_, _, _, _), ListSort(_, _, _)
SortInsert(st, s, sortedSeq, e) ==
    IF sortedSeq = <<>> THEN <<e>>
    ELSE IF CmpLeq(st, s, sortedSeq[Len(sortedSeq)], e) THEN Append(sortedSeq, e)
    ELSE Append(SortInsert(st, s, SubSeq(sortedSeq, 1, Len(sortedSeq) - 1), e),
                sortedSeq[Len(sortedSeq)])
ListSort(st, s, seq) ==
    IF seq = <<>> THEN <<>>
    ELSE SortInsert(st, s, ListSort(st, s, SubSeq(seq, 1, Len(seq) - 1)), seq[Len(seq)])

AllHaveSite(st, s) ==
    \A i \in 1 .. Len(ElementsOf(st, s)) : HasSite(st, ElementsOf(st, s)[i], s)

\* copy.copy(self): the attributes of s under the new identity n
copyCopy(st, s, n) ==
    [st EXCEPT !.alloc = n, !.ref[n] = st.ref[s], !.isSorted[n] = st.isSorted[s],
               !.isFlat[n] = st.isFlat[s], !.cache[n] = st.cache[s],
               !.unlinkedDuration[n] = st.unlinkedDuration[s],
               !.parent[n] = st.parent[s], !.sites[n] = st.sites[s]]

\* for thisElement in post: locations.add(offset in self, newStream); parent
RECURSIVE SortedLoop(_, _, _, _)
SortedLoop(st, s, n, i) ==
    IF i > Len(ElementsOf(st, n)) THEN st
    ELSE LET e == ElementsOf(st, n)[i] IN
         SortedLoop(setParent(locationsAdd(st, e, n, getOffsetBySite(st, e, s)), e, n),
                    s, n, i + 1)

\* Stream._getSorted
_getSorted(st, s) ==
    IF ~AllHaveSite(st, s) THEN Raise(st)
    ELSE [SortedLoop(_setElements(copyCopy(
                         [st EXCEPT !.elements[st.ref[s]] = ListSort(st, s, @)],
                         s, st.alloc + 1), st.alloc + 1, s),
                     s, st.alloc + 1, 1)
             EXCEPT !.isSorted[st.alloc + 1] = TRUE]

\* The calls newStream.insert(offset, element) that _getFlatOrSemiFlat makes
\* for Stream s, in order, as a sequence of <<element, offset>>.  An element
\* met twice in the result of a recursive call has one offset there, the one
\* of its last insert.
RECURSIVE FlatCalls(_, _, _)
LastOffset(calls, e) ==
    calls[CHOOSE k \in 1 .. Len(calls) :
              /\ calls[k][1] = e
              /\ \A j \in (k + 1) .. Len(calls) : calls[j][1] # e][2]
RECURSIVE FlatCallsFrom(_, _, _, _)
FlatCallsFrom(st, s, retainContainers, i) ==
    IF i > Len(ElementsOf(st, s)) THEN <<>>
    ELSE LET myEl == ElementsOf(st, s)[i]
             recurseStreamOffset == getOffsetBySite(st, myEl, s)
             here == IF IsStream(myEl)
                     THEN Bind(FlatCalls(st, myEl, retainContainers), LAMBDA sub :
                          (IF retainContainers
                           THEN <<(<<myEl, recurseStreamOffset>>)>> ELSE <<>>)
                          \o [k \in 1 .. Len(sub) |->
                                <<sub[k][1],
                                  LastOffset(sub, sub[k][1]) + recurseStreamOffset>>])
                     ELSE <<(<<myEl, recurseStreamOffset>>)>>
         IN here \o FlatCallsFrom(st, s, retainContainers, i + 1)
FlatCalls(st, s, retainContainers) == FlatCallsFrom(st, s, retainContainers, 1)

\* every getOffsetBySite of the flattening finds its site
RECURSIVE FlatDefined(_, _)
FlatDefined(st, s) ==
    \A i \in 1 .. Len(ElementsOf(st, s)) :
        /\ HasSite(st, ElementsOf(st, s)[i], s)
        /\ IsStream(ElementsOf(st, s)[i]) => FlatDefined(st, ElementsOf(st, s)[i])

RECURSIVE InsertCalls(_, _, _, _)
InsertCalls(st, n, calls, i) ==
    IF i > Len(calls) \/ st.err THEN st
    ELSE InsertCalls(insert(st, n, calls[i][2], calls[i][1]), n, calls, i + 1)

\* the end of _getFlatOrSemiFlat: newStream.isFlat = True
FlatFinish(st2, n) == IF st2.err THEN st2 ELSE [st2 EXCEPT !.isFlat[n] = TRUE]

\* _getFlatOrSemiFlat as it would be without newStream._elements = []: the
\* copy keeps the list of self and the inserts add to it
_getFlatOrSemiFlat_sharedList(st, s, retainContainers) ==
    IF ~FlatDefined(st, s) THEN Raise(st)
    ELSE FlatFinish(InsertCalls(_elementsChanged(copyCopy(st, s, st.alloc + 1),
                                                 st.alloc + 1),
                                st.alloc + 1, FlatCalls(st, s, retainContainers), 1),
                    st.alloc + 1)

\* _getFlatOrSemiFlat as it would be with newStream._elements = list(self.elements):
\* the copy starts from the elements of self
_getFlatOrSemiFlat_keepElements(st, s, retainContainers) ==
    IF ~FlatDefined(st, s) THEN Raise(st)
    ELSE FlatFinish(InsertCalls(_elementsChanged(
                                    [copyCopy(st, s, st.alloc + 1) EXCEPT
                                        !.ref[st.alloc + 1] = st.alloc + 1,
                                        !.elements[st.alloc + 1] = ElementsOf(st, s)],
                                    st.alloc + 1),
                                st.alloc + 1, FlatCalls(st, s, retainContainers), 1),
                    st.alloc + 1)

\* Stream._getFlatOrSemiFlat(retainContainers)
_getFlatOrSemiFlat(st, s, retainContainers) ==
    IF ~FlatDefined(st, s) THEN Raise(st)
    ELSE FlatFinish(InsertCalls(_elementsChanged(
                                    [copyCopy(st, s, st.alloc + 1) EXCEPT
                                        !.ref[st.alloc + 1] = st.alloc + 1,
                                        !.elements[st.alloc + 1] = <<>>],
                                    st.alloc + 1),
                                st.alloc + 1, FlatCalls(st, s, retainContainers), 1),
                    st.alloc + 1)

\* Stream(): a new, empty Stream under the identity n
newStream(st, n) ==
    [st EXCEPT !.alloc = n, !.ref[n] = n, !.elements[n] = <<>>,
               !.isSorted[n] = TRUE, !.isFlat[n] = TRUE, !.cache[n] = EmptyCache,
               !.unlinkedDuration[n] = <<>>]

\* isClass: the classes of the model and their subclass relation
Classes == {"Note", "GeneralNote", "Clef", "Stream", "Music21Object"}
isClass(o, className) ==
    \/ className = Kind(o)
    \/ className = "Music21Object"
    \/ className = "GeneralNote" /\ Kind(o) = "Note"

\* getElementsByClass without appendedAlready: an element is put into found
\* once for every class of the list that it is an instance of
ByClassAppends_everyClass(matches, appendedAlready) == matches

\* if myEl.isClass(myCl) and appendedAlready == False
ByClassAppends(matches, appendedAlready) == matches /\ ~appendedAlready

\* found.insert(myEl.getOffsetBySite(self), myEl)
ByClassFound(st, s, found, myEl) ==
    IF ~HasSite(st, myEl, s) THEN Raise(st)
    ELSE insert(st, found, getOffsetBySite(st, myEl, s), myEl)

\* for myCl in classFilterList, from class k on
RECURSIVE ByClassFilters(_, _, _, _, _, _, _)
ByClassFilters(st, s, found, classFilterList, myEl, k, appendedAlready) ==
    IF k > Len(classFilterList) \/ st.err THEN st
    ELSE IF ByClassAppends(isClass(myEl, classFilterList[k]), appendedAlready)
    THEN ByClassFilters(ByClassFound(st, s, found, myEl), s, found,
                        classFilterList, myEl, k + 1, TRUE)
    ELSE ByClassFilters(st, s, found, classFilterList, myEl, k + 1,
                        appendedAlready)

\* Stream.getElementsByClass(classFilterList), from element i on; the
\* iteration has set the parent of the element to s
RECURSIVE ByClassLoop(_, _, _, _, _)
ByClassLoop(st, s, found, classFilterList, i) ==
    IF i > Len(ElementsOf(st, s)) \/ st.err THEN st
    ELSE ByClassLoop(
            ByClassFilters(setParent(st, ElementsOf(st, s)[i], s), s, found,
                           classFilterList, ElementsOf(st, s)[i], 1, FALSE),
            s, found, classFilterList, i + 1)

getElementsByClass(st, s, classFilterList) ==
    ByClassLoop(newStream(st, st.alloc + 1), s, st.alloc + 1, classFilterList, 1)

\* offset + dur of a number and a Duration: the offset plus the quarterLength
DurationPlus(offset, ql) == offset + ql

\* if dur == None or onsetOnly: elementEnd = offset; else: offset + dur
ElementEnd(offset, dur, onsetOnly) ==
    IF dur = <<>> \/ onsetOnly THEN offset ELSE DurationPlus(offset, dur[1])

\* the test of getElementsByOffset as it would be with the end boundary
\* always excluded
OffsetMatch_endExcluded(offset, elementEnd, offsetStart, offsetEnd, includeCoincidentBoundaries) ==
    offset >= offsetStart /\ elementEnd < offsetEnd

\* offset >= offsetStart and elementEnd <= or < offsetEnd
OffsetMatch(offset, elementEnd, offsetStart, offsetEnd, includeCoincidentBoundaries) ==
    IF includeCoincidentBoundaries
    THEN offset >= offsetStart /\ elementEnd <= offsetEnd
    ELSE offset >= offsetStart /\ elementEnd < offsetEnd

\* one element of getElementsByOffset: st1 is the state in which the iteration
\* has set its parent, d the result of dur = element.duration
ByOffsetStep(st1, d, element, found, offsetStart, offsetEnd, includeCoincidentBoundaries, onsetOnly) ==
    IF offsetProperty(st1, element) = <<>> THEN Raise(st1)
    ELSE IF d.st.err THEN d.st
    ELSE IF OffsetMatch(offsetProperty(st1, element)[1],
                        ElementEnd(offsetProperty(st1, element)[1], d.v, onsetOnly),
                        offsetStart, offsetEnd, includeCoincidentBoundaries)
    THEN IF offsetProperty(d.st, element) = <<>> THEN Raise(d.st)
         ELSE insert(d.st, found, offsetProperty(d.st, element)[1], element)
    ELSE d.st

\* dur = element.duration: a Stream computes it, another element holds it
DurationOf(st1, element) ==
    IF IsStream(element) THEN _getDuration(st1, element)
    ELSE [v |-> LeafDuration[element], st |-> st1]

\* Stream.getElementsByOffset(offsetStart, offsetEnd, includeCoincidentBoundaries,
\* onsetOnly), from element i on
RECURSIVE ByOffsetLoop(_, _, _, _, _, _, _, _)
ByOffsetLoop(st, s, found, offsetStart, offsetEnd, includeCoincidentBoundaries, onsetOnly, i) ==
    IF i > Len(ElementsOf(st, s)) \/ st.err THEN st
    ELSE ByOffsetLoop(
            ByOffsetStep(setParent(st, ElementsOf(st, s)[i], s),
                         DurationOf(setParent(st, ElementsOf(st, s)[i], s),
                                    ElementsOf(st, s)[i]),
                         ElementsOf(st, s)[i], found,
                         offsetStart, offsetEnd, includeCoincidentBoundaries,
                         onsetOnly),
            s, found, offsetStart, offsetEnd, includeCoincidentBoundaries,
            onsetOnly, i + 1)

getElementsByOffset(st, s, offsetStart, offsetEnd, includeCoincidentBoundaries, onsetOnly) ==
    ByOffsetLoop(newStream(st, st.alloc + 1), s, st.alloc + 1,
                 offsetStart, offsetEnd, includeCoincidentBoundaries, onsetOnly, 1)

----------------------------------------------------------------------------
\* Stream.__deepcopy__

\* the copies of leaf e that copy.deepcopy has not handed out yet
FreeCopies(st, e) ==
    {c \in Leaves \ BaseLeaves :
        /\ Base(c) = Base(e)
        /\ st.parent[c] = 0
        /\ DOMAIN st.sites[c] = {0}}

\* copy.deepcopy(e) of an element that is no Stream: a new object with the
\* sites and the parent of e.  No copy left: the run ends here.
deepcopyLeaf(st, e) ==
    IF FreeCopies(st, e) = {} THEN [v |-> 0, st |-> Raise(st)]
    ELSE Bind(CHOOSE c \in FreeCopies(st, e) : \A d \in FreeCopies(st, e) : d <= c,
              LAMBDA c : [v |-> c,
                          st |-> [st EXCEPT !.sites[c] = st.sites[e],
                                            !.parent[c] = st.parent[e]]])

\* new = self.__class__() and the attributes that are set with setattr; late
\* is the set of the attributes among isSorted and isFlat that self.__dict__
\* yields after _elements
DeepcopyNew(st, s, n, late) ==
    [newStream(st, n) EXCEPT
        !.parent[n] = st.parent[s],
        !.sites[n] = st.sites[s],
        !.unlinkedDuration[n] = st.unlinkedDuration[s],
        !.isSorted[n] = IF "isSorted" \in late THEN TRUE ELSE st.isSorted[s],
        !.isFlat[n] = IF "isFlat" \in late THEN TRUE ELSE st.isFlat[s]]

\* the attributes that self.__dict__ yields after _elements
DeepcopyLate(st, s, n, late) ==
    [st EXCEPT
        !.isSorted[n] = IF "isSorted" \in late THEN st.isSorted[s] ELSE @,
        !.isFlat[n] = IF "isFlat" \in late THEN st.isFlat[s] ELSE @]

\* Stream.__deepcopy__ of Stream s; the result is [v |-> the copy, st |-> state]
RECURSIVE deepcopyStream(_, _, _), DeepcopyLoop(_, _, _, _, _)
\* copy.deepcopy(e)
deepcopyElement(st, e, late) ==
    IF IsStream(e) THEN deepcopyStream(st, e, late) ELSE deepcopyLeaf(st, e)

\* the insert as it would be with e in the place of newElement
DeepcopyInsert_original(r, old, n, e) ==
    IF r.st.err THEN r.st
    ELSE IF ~HasSite(r.st, e, old) THEN Raise(r.st)
    ELSE insert(r.st, n, getOffsetBySite(r.st, e, old), e)

\* new.insert(e.getOffsetBySite(old), newElement), r the result of deepcopy(e)
DeepcopyInsert(r, old, n, e) ==
    IF r.st.err THEN r.st
    ELSE IF ~HasSite(r.st, e, old) THEN Raise(r.st)
    ELSE insert(r.st, n, getOffsetBySite(r.st, e, old), r.v)

\* for e in self._elements, from element i on
DeepcopyLoop(st, s, n, late, i) ==
    IF i > Len(ElementsOf(st, s)) \/ st.err THEN st
    ELSE DeepcopyLoop(DeepcopyInsert(deepcopyElement(st, ElementsOf(st, s)[i], late),
                                     s, n, ElementsOf(st, s)[i]),
                      s, n, late, i + 1)

deepcopyStream(st, s, late) ==
    IF st.alloc >= 2 + MaxOps THEN [v |-> 0, st |-> Raise(st)]
    ELSE [v |-> st.alloc + 1,
          st |-> Bind(DeepcopyLoop(DeepcopyNew(st, s, st.alloc + 1, late),
                                   s, st.alloc + 1, late, 1),
                      LAMBDA st1 : IF st1.err THEN st1
                                   ELSE DeepcopyLate(st1, s, st.alloc + 1, late))]

----------------------------------------------------------------------------
\* The state machine

Live == 1 .. alloc
\* Streams 1 and 2 are the caller's own
Own == {1, 2}
\* what the caller puts into Stream s: the note, the clef, and Stream 2 into
\* Stream 1 unless that would make Stream 2 an element of itself
Insertable(s) == {-1, -2} \cup (IF s = 1 /\ ref[1] # ref[2] THEN {2} ELSE {})
AppendLists(s) == {<<x>> : x \in Insertable(s)} \cup {<<-1, -2>>}
ClassFilters == << <<"Stream">>, <<"GeneralNote", "Note">> >>
\* offsetStart, offsetEnd, includeCoincidentBoundaries, onsetOnly
Ranges == {<<0, 1, FALSE, TRUE>>, <<1, 1, TRUE, TRUE>>}
Shifts == {1}
\* the direct calls element.setOffsetBySite(s, offset): <<element, offset>>
Moves == {<<-1, 1>>, <<-2, 0>>, <<-2, 1>>}

\* an operation name on Stream s with result r (0: none) and arguments args
Op(name, s, r, args) == [op |-> name, s |-> s, r |-> r, args |-> args]
\* the last operation; "init" before the first
last == IF hist = <<>> THEN Op("init", 0, 0, <<>>) ELSE hist[Len(hist)]

\* Stream 2, the only nested Stream, holds no Stream: the nesting has no cycle
Acyclic(st) == \A i \in 1 .. Len(ElementsOf(st, 2)) : ~IsStream(ElementsOf(st, 2)[i])

\* the operation ended without an exception, in state st
Commit(st, lastOp) ==
    /\ Len(hist) < MaxOps
    /\ ~st.err
    /\ Acyclic(st)
    /\ elements' = st.elements
    /\ ref' = st.ref
    /\ sites' = st.sites
    /\ parent' = st.parent
    /\ isSorted' = st.isSorted
    /\ isFlat' = st.isFlat
    /\ cache' = st.cache
    /\ unlinkedDuration' = st.unlinkedDuration
    /\ alloc' = st.alloc
    /\ hist' = Append(hist, lastOp)
    /\ UNCHANGED score

\* The state after Stream() for every identity, before any insert
Empty ==
    [elements |-> [l \in StreamIds |-> <<>>],
     ref |-> [s \in StreamIds |-> s],
     sites |-> [o \in Objs |-> (0 :> NativeOffset[o])],
     parent |-> [o \in Objs |-> 0],
     isSorted |-> [s \in StreamIds |-> TRUE],
     isFlat |-> [s \in StreamIds |-> TRUE],
     cache |-> [s \in StreamIds |-> EmptyCache],
     unlinkedDuration |-> [s \in StreamIds |-> <<>>],
     alloc |-> 2,
     err |-> FALSE]

\* How the caller built Streams 1 and 2 before the run: a sequence of calls
\* s.insert(off, item), each written <<s, off, item>>.
Scripts ==
    { <<>>,
      << <<1, 0, -1>>, <<1, 1, -2>> >>,
      << <<1, 1, -2>>, <<1, 0, -1>> >>,
      << <<1, 0, -2>>, <<1, 0, -1>> >>,
      << <<2, 0, -1>>, <<2, 1, -2>>, <<1, 1, 2>> >>,
      << <<2, 1, -1>>, <<1, 1, 2>>, <<1, 0, -1>> >>,
      << <<1, 1, -1>>, <<2, 0, -1>> >>,
      << <<2, 0, -2>>, <<1, 0, -1>>, <<1, 2, 2>> >> }

RECURSIVE Build(_, _)
Build(script, k) ==
    IF k = 0 THEN Empty
    ELSE insert(Build(script, k - 1), script[k][1], script[k][2], script[k][3])

\* The variables of the Streams hold the state st
InitStreams(st) ==
    /\ elements = st.elements
    /\ ref = st.ref
    /\ sites = st.sites
    /\ parent = st.parent
    /\ isSorted = st.isSorted
    /\ isFlat = st.isFlat
    /\ cache = st.cache
    /\ unlinkedDuration = st.unlinkedDuration
    /\ alloc = st.alloc
    /\ hist = <<>>

InitFrom(st) == InitStreams(st) /\ score = NoScore

Init == \E script \in Scripts : InitFrom(Build(script, Len(script)))

Insert(s, off, item) ==
    Commit(insert(Cur, s, off, item), Op("insert", s, 0, <<off, item>>))

AppendOp(s, others) == Commit(append(Cur, s, others), Op("append", s, 0, others))

InsertAtIndex(s, pos, item) ==
    Commit(insertAtIndex(Cur, s, pos, item), Op("insertAtIndex", s, 0, <<pos, item>>))

SetItem(s, key, value) ==
    Commit(__setitem__(Cur, s, key, value), Op("setitem", s, 0, <<key, value>>))

DelItem(s, key) == Commit(__delitem__(Cur, s, key), Op("delitem", s, 0, <<key>>))

Pop(s, index) == Commit(pop(Cur, s, index), Op("pop", s, 0, <<index>>))

SetElements(s, src) ==
    Commit(_setElements(Cur, s, src), Op("setElements", s, 0, <<src>>))

ShiftElements(s, d) ==
    Commit(shiftElements(Cur, s, d), Op("shiftElements", s, 0, <<d>>))

\* element.locations.setOffsetBySite(site, offset), called by the user
SetOffsetBySite(o, s, off) ==
    /\ HasSite(Cur, o, s)
    /\ Commit([Cur EXCEPT !.sites[o][s] = off], Op("setOffsetBySite", s, 0, <<off, o>>))

Sorted(s) == Commit(_getSorted(Cur, s), Op("sorted", s, alloc + 1, <<>>))

Flat(s) == Commit(_getFlatOrSemiFlat(Cur, s, FALSE), Op("flat", s, alloc + 1, <<>>))

SemiFlat(s) ==
    Commit(_getFlatOrSemiFlat(Cur, s, TRUE), Op("semiFlat", s, alloc + 1, <<>>))

\* s.getElementsByClass(ClassFilters[k])
GetElementsByClass(s, k) ==
    Commit(getElementsByClass(Cur, s, ClassFilters[k]),
           Op("getElementsByClass", s, alloc + 1, <<k>>))

GetElementsByOffset(s, offsetStart, offsetEnd, includeCoincidentBoundaries, onsetOnly) ==
    Commit(getElementsByOffset(Cur, s, offsetStart, offsetEnd,
                               includeCoincidentBoundaries, onsetOnly),
           Op("getElementsByOffset", s, alloc + 1,
              <<offsetStart, offsetEnd, IF includeCoincidentBoundaries THEN 1 ELSE 0,
                IF onsetOnly THEN 1 ELSE 0>>))

ReadHighestTime(s) == Commit(_getHighestTime(Cur, s).st, Op("highestTime", s, 0, <<>>))

ReadHighestOffset(s) ==
    Commit(_getHighestOffset(Cur, s).st, Op("highestOffset", s, 0, <<>>))

ReadLowestOffset(s) ==
    Commit(_getLowestOffset(Cur, s).st, Op("lowestOffset", s, 0, <<>>))

ReadDuration(s) == Commit(_getDuration(Cur, s).st, Op("duration", s, 0, <<>>))

\* for e in s: pass
Iterate(s) == Commit(StreamIterator(Cur, s), Op("iterate", s, 0, <<>>))

Mutate ==
    \/ \E s \in Live :
        \/ \E off \in Offsets, item \in Insertable(s) : Insert(s, off, item)
        \/ \E index \in {1, Len(ElementsOf(Cur, s))} \ {0} : Pop(s, index)
    \/ \E s \in Own :
        \/ \E others \in AppendLists(s) : AppendOp(s, others)
        \/ InsertAtIndex(s, 0, -2)
        \/ \E value \in Insertable(s) \ {-1} :
               /\ Len(ElementsOf(Cur, s)) > 0
               /\ SetItem(s, Len(ElementsOf(Cur, s)), value)
        \/ Len(ElementsOf(Cur, s)) > 0 /\ DelItem(s, 1)
        \/ \E d \in Shifts : ShiftElements(s, d)
        \/ \E move \in Moves : SetOffsetBySite(move[1], s, move[2])
    \/ SetElements(1, 2)

Derive ==
    /\ alloc < 2 + MaxOps
    /\ \/ \E s \in Live :
            \/ Sorted(s)
            \/ Flat(s)
       \/ \E s \in Own :
            \/ SemiFlat(s)
            \/ \E k \in 1 .. Len(ClassFilters) : GetElementsByClass(s, k)
            \/ \E range \in Ranges :
                   GetElementsByOffset(s, range[1], range[2], range[3], range[4])

Read ==
    \/ \E s \in Live : ReadHighestTime(s)
    \/ \E s \in Own :
        \/ ReadDuration(s)
        \/ Iterate(s)
    \/ ReadHighestOffset(1)
    \/ ReadLowestOffset(1)

Next == Mutate \/ Derive \/ Read

Spec == Init /\ [][Next]_vars

----------------------------------------------------------------------------
\* Deep copies: the caller's Streams are copied and the copies and the
\* originals are inserted into, popped from and shifted

\* c = copy.deepcopy(s); the arguments recorded are the attributes that
\* self.__dict__ yields after _elements (1: isSorted, 2: isFlat)
Deepcopy(s, late) ==
    Commit(deepcopyStream(Cur, s, late).st,
           Op("deepcopy", s, alloc + 1,
              <<IF "isSorted" \in late THEN 1 ELSE 0, IF "isFlat" \in late THEN 1 ELSE 0>>))

NextCopy ==
    \/ \E s \in Own, late \in SUBSET {"isSorted", "isFlat"} : Deepcopy(s, late)
    \/ \E s \in Live :
        \/ \E off \in Offsets, item \in Insertable(s) : Insert(s, off, item)
        \/ \E index \in {1, Len(ElementsOf(Cur, s))} \ {0} : Pop(s, index)
        \/ \E d \in Shifts : ShiftElements(s, d)

SpecCopy == Init /\ [][NextCopy]_vars

----------------------------------------------------------------------------
\* Sorting: Streams 1 and 2 built from the same (offset, object) pairs in
\* different orders, then inserted into and sorted

\* <<s, off, item>> as in Scripts.  The note -3 and the clef -2 have the same
\* priority, the note -1 a higher one.
SortScripts ==
    { << <<1, 0, -3>>, <<1, 0, -2>>, <<2, 0, -2>>, <<2, 0, -3>> >>,
      << <<1, 0, -1>>, <<1, 0, -2>>, <<1, 1, -3>>,
         <<2, 1, -3>>, <<2, 0, -2>>, <<2, 0, -1>> >>,
      << <<1, 1, -1>>, <<1, 0, -3>>, <<2, 0, -3>>, <<2, 1, -1>> >>,
      << <<2, 1, -1>>, <<2, 0, -3>>, <<1, 1, 2>>, <<1, 0, -2>> >>,
      << <<1, 1, -2>>, <<2, 0, -2>> >> }

InitSort == \E script \in SortScripts : InitFrom(Build(script, Len(script)))

NextSort ==
    \/ \E s \in Own, off \in Offsets, item \in BaseLeaves : Insert(s, off, item)
    \/ \E s \in Live : alloc < 2 + MaxOps /\ Sorted(s)

SpecSort == InitSort /\ [][NextSort]_vars

----------------------------------------------------------------------------
\* Ranges of offsets: the Streams of Init are inserted into, and
\* getElementsByOffset is called with both values of both options

RangeStarts == {0, 1}
RangeEnds == {1, 3}

NextRanges ==
    \/ \E s \in Own : \E off \in Offsets, item \in Insertable(s) :
           Insert(s, off, item)
    \/ \E s \in Own, offsetStart \in RangeStarts, offsetEnd \in RangeEnds,
          includeCoincidentBoundaries \in BOOLEAN, onsetOnly \in BOOLEAN :
           /\ alloc < 2 + MaxOps
           /\ GetElementsByOffset(s, offsetStart, offsetEnd,
                                  includeCoincidentBoundaries, onsetOnly)

SpecRanges == Init /\ [][NextRanges]_vars

----------------------------------------------------------------------------
\* The duration of a Stream: Streams 1 and 2 are given a Duration of their
\* own, or None, are inserted into, appended to and popped from, and their
\* duration and highestTime are read

\* _setDuration as it would be if None left an explicit Duration in place
_setDuration_keeps(st, s, durationObj) ==
    [st EXCEPT !.unlinkedDuration[s] = IF durationObj = <<>> THEN @ ELSE durationObj]

\* Stream._setDuration(durationObj): durationObj is <<>> for None, else the
\* quarterLength of a Duration
_setDuration(st, s, durationObj) ==
    [st EXCEPT !.unlinkedDuration[s] = durationObj]

Durations == {<<>>, <<1>>}

\* s.duration = durationObj
SetDuration(s, durationObj) ==
    Commit(_setDuration(Cur, s, durationObj),
           Op("setDuration", s, 0, durationObj))

NextDuration ==
    \/ \E s \in Own, durationObj \in Durations : SetDuration(s, durationObj)
    \/ \E s \in Own : \E off \in Offsets, item \in Insertable(s) :
           Insert(s, off, item)
    \/ \E s \in Own : \E others \in AppendLists(s) : AppendOp(s, others)
    \/ \E s \in Own : Len(ElementsOf(Cur, s)) > 0 /\ Pop(s, 1)
    \/ \E s \in Own : ReadDuration(s)
    \/ \E s \in Own : ReadHighestTime(s)

SpecDuration == Init /\ [][NextDuration]_vars

----------------------------------------------------------------------------
\* Measures.  makeMeasures and makeTies work on notes, rests, clefs and time
\* signatures whose durations and ties change, so these are records here:
\* id names the object and orig the object it was copied from (itself if
\* none), off is its offset in the Stream that holds it, dur its
\* duration.quarterLength (-1: no Duration), bar the barDuration.quarterLength
\* of a TimeSignature (-1 otherwise), tie is "start" or "", pitches the
\* diatonicNoteNum of the pitch of a Note, of the pitches of a Chord.  A time
\* signature is known by its bar duration only.

\* the diatonicNoteNum of C4, the pitch of note.Note()
DefaultPitch == 29

Elem(id, cls, off, dur, bar) ==
    [id |-> id, orig |-> id, cls |-> cls, off |-> off, dur |-> dur,
     bar |-> bar, tie |-> "",
     pitches |-> IF cls = "Note" THEN <<DefaultPitch>> ELSE <<>>]

\* defaults.meterNumerator quarters of defaults.meterDenominatorBeatType
DefaultBar == 4

\* the TimeSignature that is made when none is found; its id is 0
DefaultTimeSignature == Elem(0, "TimeSignature", 0, -1, DefaultBar)

\* hasattr(e, 'duration') and e.duration != None
HasDuration(e) == e.dur # -1

\* dur of makeMeasures' offsetMap
DurOrZero(e) == IF HasDuration(e) THEN e.dur ELSE 0

Max(S) == CHOOSE x \in S : \A y \in S : y <= x

\* getElementsByClass(meter.TimeSignature)
RECURSIVE TimeSignaturesIn(_)
TimeSignaturesIn(list) ==
    IF Len(list) = 0 THEN <<>>
    ELSE (IF Head(list).cls = "TimeSignature" THEN <<Head(list)>> ELSE <<>>)
         \o TimeSignaturesIn(Tail(list))

\* a default is put at 0 when there is no time signature or when the first
\* one found is later than 0
WithDefault(post) ==
    IF Len(post) = 0 \/ post[1].off > 0 THEN Append(post, DefaultTimeSignature)
    ELSE post

getTimeSignatures(list) == WithDefault(TimeSignaturesIn(list))

\* The loop of getElementAtOrBefore: the indices of the candidates
RECURSIVE AtOrBeforeLoop(_, _, _, _, _)
AtOrBeforeLoop(list, offset, i, nearestTrailSpan, candidates) ==
    IF i > Len(list) THEN candidates
    ELSE IF offset - list[i].off < 0
    THEN AtOrBeforeLoop(list, offset, i + 1, nearestTrailSpan, candidates)
    ELSE IF offset - list[i].off = 0 \/ offset - list[i].off <= nearestTrailSpan
    THEN AtOrBeforeLoop(list, offset, i + 1, offset - list[i].off,
                        Append(candidates, i))
    ELSE AtOrBeforeLoop(list, offset, i + 1, nearestTrailSpan, candidates)

\* candidates.sort() compares (span, element): at equal spans the objects are
\* compared, and which of two objects is the lower one is not defined by the
\* code.  low is the object that compares lowest; the others follow by id.
ObjLess(low, a, b) == a # b /\ (a = low \/ (b # low /\ a < b))

TupleLess(list, offset, low, i, j) ==
    \/ list[j].off < list[i].off
    \/ list[j].off = list[i].off /\ ObjLess(low, list[i].id, list[j].id)

FirstCandidate(list, offset, low, c) ==
    IF Len(c) = 0 THEN <<>>
    ELSE <<list[CHOOSE i \in {c[k] : k \in 1..Len(c)} :
                  \A j \in {c[k] : k \in 1..Len(c)} \ {i} :
                      TupleLess(list, offset, low, i, j)]>>

getElementAtOrBefore(list, offset, low) ==
    FirstCandidate(list, offset, low, AtOrBeforeLoop(list, offset, 1, offset, <<>>))

\* findHeight of bestClef
findHeight(diatonicNoteNum) ==
    IF diatonicNoteNum > 33 THEN diatonicNoteNum + 3
    ELSE IF diatonicNoteNum < 24 THEN diatonicNoteNum - 3
    ELSE diatonicNoteNum

\* sum of findHeight over the pitches from index i on
RECURSIVE HeightOfPitches(_, _)
HeightOfPitches(pitches, i) ==
    IF i > Len(pitches) THEN 0
    ELSE findHeight(pitches[i]) + HeightOfPitches(pitches, i + 1)

\* The loop of bestClef over the notes, rests and chords of the Stream, from
\* index i on: a rest is passed over, a note counts its pitch, a chord each
\* of its pitches.  The result is <<totalNotes, totalHeight>>.
RECURSIVE BestClefLoop(_, _, _, _)
BestClefLoop(list, i, totalNotes, totalHeight) ==
    IF i > Len(list) THEN <<totalNotes, totalHeight>>
    ELSE IF list[i].cls \in {"Note", "Chord"}
    THEN BestClefLoop(list, i + 1, totalNotes + Len(list[i].pitches),
                      totalHeight + HeightOfPitches(list[i].pitches, 1))
    ELSE BestClefLoop(list, i + 1, totalNotes, totalHeight)

\* (a variant whose limit is one step lower: averageHeight >= 28)
BestClefOf_from28(t) ==
    IF t[1] = 0 \/ t[2] >= 28 * t[1] THEN "TrebleClef" ELSE "BassClef"

\* averageHeight = 29 without notes, else totalHeight / totalNotes; treble
\* when averageHeight > 28
BestClefOf(t) ==
    IF t[1] = 0 \/ t[2] > 28 * t[1] THEN "TrebleClef" ELSE "BassClef"

\* bestClef() with allowTreble8vb = False: the class of the clef returned
bestClef(list) == BestClefOf(BestClefLoop(list, 1, 0, 0))

\* e.isClass(clef.Clef)
IsClef(e) == e.cls \in {"Clef", "TrebleClef", "BassClef"}

\* Measure.clef: of the clefs of the measure those at offset 0, and the
\* first of these or None
RECURSIVE FirstClefAtZero(_, _)
FirstClefAtZero(list, i) ==
    IF i > Len(list) THEN <<>>
    ELSE IF IsClef(list[i]) /\ list[i].off = 0 THEN <<list[i]>>
    ELSE FirstClefAtZero(list, i + 1)

clef(m) == FirstClefAtZero(m.list, 1)

\* Measure.timeSignature: of the time signatures of the measure those at
\* offset 0, and the first of these or None; i is the index looked at
RECURSIVE FirstAtZero(_, _)
FirstAtZero(list, i) ==
    IF i > Len(list) THEN <<>>
    ELSE IF list[i].cls = "TimeSignature" /\ list[i].off = 0 THEN <<list[i]>>
    ELSE FirstAtZero(list, i + 1)

timeSignature(m) == FirstAtZero(m.list, 1)

\* what a call that builds measures returns: err names the exception raised
MeasuresResult(err, ms, nid) == [err |-> err, ms |-> ms, nid |-> nid]

\* m = Measure(); m.measureNumber = ...; m.timeSignature = deepcopy(...) when
\* the meter is another object than the last one; m.clef = clefObj in the
\* first measure; post.insert(o, m).  A measure is [number, off, list], off
\* its offset in the Stream of measures.
NewMeasure(ms, o, this, lastTimeSignature, nid, clefObj) ==
    [number |-> Len(ms) + 1, off |-> o,
     list |-> (IF <<this.id>> # lastTimeSignature
               THEN <<[this EXCEPT !.id = nid, !.off = 0]>> ELSE <<>>)
              \o (IF Len(ms) = 0 THEN <<Elem(nid + 1, clefObj, 0, -1, -1)>> ELSE <<>>)]

\* The while loop of makeMeasures, from the offset o on
RECURSIVE MeasureLoop(_, _, _, _, _, _, _, _)
MeasureLoopStep(meterStream, low, oMax, o, lastTimeSignature, ms, nid, clefObj, this) ==
    IF this = <<>> THEN MeasuresResult("AttributeError", ms, nid)
    ELSE IF this[1].bar = 0 THEN MeasuresResult("StreamException", ms, nid)
    ELSE IF o + this[1].bar >= oMax
    THEN MeasuresResult("", Append(ms, NewMeasure(ms, o, this[1], lastTimeSignature, nid, clefObj)),
                        nid + 2)
    ELSE MeasureLoop(meterStream, low, oMax, o + this[1].bar, <<this[1].id>>,
                     Append(ms, NewMeasure(ms, o, this[1], lastTimeSignature, nid, clefObj)),
                     nid + 2, clefObj)

MeasureLoop(meterStream, low, oMax, o, lastTimeSignature, ms, nid, clefObj) ==
    MeasureLoopStep(meterStream, low, oMax, o, lastTimeSignature, ms, nid, clefObj,
                    getElementAtOrBefore(meterStream, o, low))

\* The inner loop of the population of the measures: the index of the measure
\* in whose span start lies, 0 when there is none, -1 when no measure up to
\* there has a time signature
RECURSIVE FindMeasure(_, _, _, _)
FindMeasureStep(ms, start, i, lastTimeSignature) ==
    IF lastTimeSignature = <<>> THEN -1
    ELSE IF start >= ms[i].off /\ start < ms[i].off + lastTimeSignature[1].bar
    THEN i
    ELSE FindMeasure(ms, start, i + 1, lastTimeSignature)

FindMeasure(ms, start, i, lastTimeSignature) ==
    IF i > Len(ms) THEN 0
    ELSE FindMeasureStep(ms, start, i,
                         IF timeSignature(ms[i]) # <<>> THEN timeSignature(ms[i])
                         ELSE lastTimeSignature)

\* The outer loop: the copy of src[k] (its id is Len(src) + k) is inserted
\* into its measure at start - mStart
RECURSIVE PopulateLoop(_, _, _, _)
\* (a variant that keeps the offset of the source: m.insert(start, e))
PopulateStep_sourceOffset(src, ms, k, nid, i) ==
    IF i = 0 THEN MeasuresResult("StreamException", ms, nid)
    ELSE IF i = -1 THEN MeasuresResult("AttributeError", ms, nid)
    ELSE PopulateLoop(src,
                      [ms EXCEPT ![i].list =
                          Append(@, [src[k] EXCEPT !.id = Len(src) + k])],
                      k + 1, nid)

PopulateStep(src, ms, k, nid, i) ==
    IF i = 0 THEN MeasuresResult("StreamException", ms, nid)
    ELSE IF i = -1 THEN MeasuresResult("AttributeError", ms, nid)
    ELSE PopulateLoop(src,
                      [ms EXCEPT ![i].list =
                          Append(@, [src[k] EXCEPT !.id = Len(src) + k,
                                                   !.off = src[k].off - ms[i].off])],
                      k + 1, nid)

PopulateLoop(src, ms, k, nid) ==
    IF k > Len(src) THEN MeasuresResult("", ms, nid)
    ELSE PopulateStep(src, ms, k, nid, FindMeasure(ms, src[k].off, 1, <<>>))

\* oMax of makeMeasures
OMax(src) == Max({src[k].off + DurOrZero(src[k]) : k \in 1..Len(src)})

\* srcObj.highestTime: the end of the last element of a Stream that is marked
\* sorted, the highest end otherwise
SrcHighestTime(src, srcSorted) ==
    IF Len(src) = 0 THEN 0
    ELSE IF srcSorted THEN src[Len(src)].off + DurOrZero(src[Len(src)])
    ELSE OMax(src)

MakeMeasuresPopulate(src, r) ==
    IF r.err # "" THEN r ELSE PopulateLoop(src, r.ms, 1, r.nid)

\* srcObj.makeMeasures() without meterStream and refStream
makeMeasures(src, srcSorted, low) ==
    IF Len(src) = 0 THEN MeasuresResult("ValueError", <<>>, 1)
    ELSE IF OMax(src) # SrcHighestTime(src, srcSorted)
    THEN MeasuresResult("StreamException", <<>>, 1)
    ELSE MakeMeasuresPopulate(src,
            MeasureLoop(getTimeSignatures(src), low, OMax(src), 0, <<>>, <<>>,
                        2 * Len(src) + 1, bestClef(src)))

\* The Stream of measures that makeTies works on: ms holds the Measure
\* objects that are or were in a Stream, post the elements of the Stream as
\* indices into ms (an object may be in the list more than once), meters
\* the meterStream that a caller may pass, nid the next unused id, call the
\* method that was called last.  The variables of makeTies: mCount, last
\* (lastTimeSignature), m (0 between two passes of the while loop), mNext,
\* mNextAdd, mEnd, index (of the iterator of for e in m) and created (the
\* Measure object made for mNext as long as no Stream holds it).
Score(phase, err, src, low, meters, ms, post, nid) ==
    [phase |-> phase, err |-> err, call |-> "", src |-> src, low |-> low,
     meters |-> meters, ms |-> ms, post |-> post, nid |-> nid,
     mCount |-> 0, last |-> <<>>, m |-> 0, mNext |-> 0, mNextAdd |-> FALSE,
     mEnd |-> 0, index |-> 0, created |-> <<>>]

\* an exception leaves makeMeasures or makeTies
ScoreRaise(sc, err) == [sc EXCEPT !.phase = "raised", !.err = err]

\* The Stream is marked sorted when every insert found the highest time at
\* or before its offset
SrcSorted(src) ==
    \A k \in 2..Len(src) : src[k - 1].off + DurOrZero(src[k - 1]) <= src[k].off

\* the measures made are kept when makeMeasures raises
makeMeasuresScore(sc, r) ==
    IF r.err # ""
    THEN ScoreRaise([sc EXCEPT !.call = "makeMeasures", !.ms = r.ms], r.err)
    ELSE [sc EXCEPT !.phase = "measured", !.call = "makeMeasures",
                    !.ms = r.ms, !.nid = r.nid,
                    !.post = [i \in 1..Len(r.ms) |-> i],
                    !.meters = getTimeSignatures(sc.src)]

\* The head of makeTies; given: the caller passes a meterStream.  The Stream
\* holds measures only, so that getTimeSignatures finds none.
makeTiesBegin(sc, given) ==
    IF Len(sc.post) = 0
    THEN ScoreRaise([sc EXCEPT !.call = "makeTies"], "StreamException")
    ELSE [sc EXCEPT !.phase = "tying", !.call = "makeTies",
                    !.mCount = 0, !.last = <<>>, !.m = 0,
                    !.meters = IF given THEN sc.meters
                               ELSE getTimeSignatures(<<>>)]

\* mNext = Measure() and what follows it; ts is the meter found for it
CreatedMeasure(sc, m, lastTimeSignature, ts) ==
    [number |-> sc.ms[m].number + 1,
     off |-> sc.ms[m].off + lastTimeSignature.bar,
     list |-> IF lastTimeSignature.bar # ts.bar
              THEN <<[ts EXCEPT !.id = sc.nid, !.off = 0]>> ELSE <<>>]

\* the meter of the meterStream at the offset of the new measure
NextMeter(sc, offset) ==
    IF Len(sc.meters) = 0 THEN <<DefaultTimeSignature>>
    ELSE getElementAtOrBefore(sc.meters, offset, sc.low)

\* The head of a pass of the while loop with the measure m, when the measure
\* that follows it in the Stream is there
TiesWithNext(sc, m, lastTimeSignature) ==
    IF lastTimeSignature = <<>> THEN ScoreRaise(sc, "AttributeError")
    ELSE [sc EXCEPT !.last = lastTimeSignature, !.m = m,
                    !.mNext = sc.post[sc.mCount + 2], !.mNextAdd = FALSE,
                    !.created = <<>>,
                    !.mEnd = lastTimeSignature[1].bar, !.index = 1]

\* the same when m is the last measure: a measure is made for the remainders
TiesWithCreated(sc, m, lastTimeSignature, ts) ==
    IF ts = <<>> THEN ScoreRaise(sc, "AttributeError")
    ELSE [sc EXCEPT !.last = lastTimeSignature, !.m = m,
                    !.mNext = Len(sc.ms) + 1, !.mNextAdd = TRUE,
                    !.created = <<CreatedMeasure(sc, m, lastTimeSignature[1], ts[1])>>,
                    !.nid = sc.nid + 1,
                    !.mEnd = lastTimeSignature[1].bar, !.index = 1]

TiesMeasure(sc, m, lastTimeSignature) ==
    IF sc.mCount + 1 < Len(sc.post) THEN TiesWithNext(sc, m, lastTimeSignature)
    ELSE IF lastTimeSignature = <<>> THEN ScoreRaise(sc, "AttributeError")
    ELSE TiesWithCreated(sc, m, lastTimeSignature,
                         NextMeter(sc, sc.ms[m].off + lastTimeSignature[1].bar))

\* while True: ... up to for e in m
makeTiesMeasure(sc) ==
    TiesMeasure(sc, sc.post[sc.mCount + 1],
                IF timeSignature(sc.ms[sc.post[sc.mCount + 1]]) # <<>>
                THEN timeSignature(sc.ms[sc.post[sc.mCount + 1]])
                ELSE sc.last)

\* e.duration.quarterLength = qLenBegin and the tie of a Note
FirstPart(e, mEnd) ==
    [e EXCEPT !.dur = mEnd - e.off,
              !.tie = IF e.cls = "Note" THEN "start" ELSE @]

\* eRemain = deepcopy(e) once e is shortened; eRemain.offset = 0
Remainder(e, mEnd, nid) ==
    [e EXCEPT !.id = nid, !.dur = e.dur - (mEnd - e.off), !.off = 0]

\* mNext.elements = [eRemain] + mNext.elements
Prepend(ms, mNext, eRemain) == [ms EXCEPT ![mNext].list = <<eRemain>> \o @]

\* the split of m.elements[index]: e is changed in m, then the remainder is
\* put into mNext
SplitInto(ms, m, index, mNext, mEnd, nid) ==
    Prepend([ms EXCEPT ![m].list[index] = FirstPart(ms[m].list[index], mEnd)],
            mNext, Remainder(ms[m].list[index], mEnd, nid))

\* the Measure objects, the one made for mNext among them
WithCreated(sc) == sc.ms \o sc.created

\* what is done with an element that crosses the end of the measure;
\* returnObj.insert(mNext.offset, mNext) puts mNext at the end of the list
TiesSplit(sc) ==
    [sc EXCEPT !.ms = SplitInto(WithCreated(sc), sc.m, sc.index, sc.mNext,
                                sc.mEnd, sc.nid),
               !.created = <<>>,
               !.nid = sc.nid + 1,
               !.post = IF sc.mNextAdd THEN Append(@, sc.mNext) ELSE @,
               !.index = sc.index + 1]

\* (a variant in which the iterator stays at an element that needs no split)
makeTiesElement_stay(sc) ==
    IF ~HasDuration(sc.ms[sc.m].list[sc.index])
       \/ sc.ms[sc.m].list[sc.index].off + sc.ms[sc.m].list[sc.index].dur <= sc.mEnd
    THEN sc
    ELSE IF sc.ms[sc.m].list[sc.index].off >= sc.mEnd
    THEN ScoreRaise(sc, "StreamException")
    ELSE TiesSplit(sc)

\* (a variant that splits nothing)
makeTiesElement_noSplit(sc) == [sc EXCEPT !.index = sc.index + 1]

\* The body of for e in m, for the element that the iterator is at; the
\* iterator reads m.elements[index] anew at every step
makeTiesElement(sc) ==
    IF ~HasDuration(sc.ms[sc.m].list[sc.index])
       \/ sc.ms[sc.m].list[sc.index].off + sc.ms[sc.m].list[sc.index].dur <= sc.mEnd
    THEN [sc EXCEPT !.index = sc.index + 1]
    ELSE IF sc.ms[sc.m].list[sc.index].off >= sc.mEnd
    THEN ScoreRaise(sc, "StreamException")
    ELSE TiesSplit(sc)

\* mCount += 1 when the iterator is through
makeTiesCount(sc) == [sc EXCEPT !.mCount = sc.mCount + 1, !.m = 0, !.created = <<>>]

\* The Streams that the caller hands over.  A flat Stream is built with
\* insert from notes, rests, clefs and time signatures:
MaxSrc == 2
SrcOffsets == {0, 2, 4}
SrcKinds ==
    { <<"Note", 1, -1>>, <<"Note", 6, -1>>, <<"Clef", -1, -1>>,
      <<"TimeSignature", -1, 0>>, <<"TimeSignature", -1, 2>>,
      <<"TimeSignature", -1, 3>> }

\* the Stream built from the kinds and offsets that f gives
SrcList(n, f) ==
    [k \in 1..n |-> Elem(k, f[k][1][1], f[k][2], f[k][1][2], f[k][1][3])]

\* the objects that may compare lowest: the default or a time signature
LowOf(src) == {0} \cup {src[k].id : k \in {j \in 1..Len(src) : src[j].cls = "TimeSignature"}}

\* sc is such a Stream, before makeMeasures
IsSource(sc) ==
    \E n \in 0..MaxSrc : \E f \in [1..n -> SrcKinds \X SrcOffsets] :
        \E low \in LowOf(SrcList(n, f)) :
            sc = Score("source", "", SrcList(n, f), low, <<>>, <<>>, <<>>, 1)

\* A Stream of measures is built by hand: the first measure with or without
\* a time signature and with notes that may reach beyond its end, and none
\* or one measure after it
MaxHand == 2
HandBars == {-1, 0, 3}
HandNotes == {<<"Note", 2>>, <<"Note", 5>>, <<"Rest", 7>>} \X {0, 2, 3}

HandList(n, f) ==
    [k \in 1..n |-> Elem(k + 1, f[k][1][1], f[k][2], f[k][1][2], -1)]

HandTimeSignature(id, bar) ==
    IF bar = -1 THEN <<>> ELSE <<Elem(id, "TimeSignature", 0, -1, bar)>>

HandMeasures(bar, notes, second) ==
    <<[number |-> 1, off |-> 0, list |-> HandTimeSignature(1, bar) \o notes]>>
    \o (IF second = -2 THEN <<>>
        ELSE <<[number |-> 2, off |-> IF bar = -1 THEN DefaultBar ELSE bar,
                list |-> HandTimeSignature(MaxHand + 2, second)]>>)

HandMeters == { <<>>, <<Elem(MaxHand + 3, "TimeSignature", 0, -1, 3)>> }

HandScore(bar, notes, second, meters) ==
    Score("measured", "", <<>>, 0, meters, HandMeasures(bar, notes, second),
          IF second = -2 THEN <<1>> ELSE <<1, 2>>, MaxHand + 4)

\* sc is such a Stream of measures, or an empty Stream
IsHand(sc) ==
    \/ sc = Score("measured", "", <<>>, 0, <<>>, <<>>, <<>>, 1)
    \/ \E n \in 1..MaxHand : \E f \in [1..n -> HandNotes] :
        \E bar \in HandBars, second \in {-2, -1, 2}, meters \in HandMeters :
            sc = HandScore(bar, HandList(n, f), second, meters)

InitMeasures == InitStreams(Empty) /\ (IsSource(score) \/ IsHand(score))

MakeMeasures ==
    /\ score.phase = "source"
    /\ score' = makeMeasuresScore(score, makeMeasures(score.src, SrcSorted(score.src), score.low))
    /\ UNCHANGED streamVars

MakeTies(given) ==
    /\ score.phase = "measured"
    /\ score' = makeTiesBegin(score, given)
    /\ UNCHANGED streamVars

\* the head of a pass of the while loop
MakeTiesMeasure ==
    /\ score.phase = "tying"
    /\ score.m = 0
    /\ score.mCount < Len(score.post)
    /\ score' = makeTiesMeasure(score)
    /\ UNCHANGED streamVars

\* the iterator of for e in m yields an element
MakeTiesElement ==
    /\ score.phase = "tying"
    /\ score.m # 0
    /\ score.index <= Len(score.ms[score.m].list)
    /\ score' = makeTiesElement(score)
    /\ UNCHANGED streamVars

\* the iterator is through
MakeTiesCount ==
    /\ score.phase = "tying"
    /\ score.m # 0
    /\ score.index > Len(score.ms[score.m].list)
    /\ score' = makeTiesCount(score)
    /\ UNCHANGED streamVars

\* break and return returnObj
MakeTiesReturn ==
    /\ score.phase = "tying"
    /\ score.m = 0
    /\ score.mCount >= Len(score.post)
    /\ score' = [score EXCEPT !.phase = "tied"]
    /\ UNCHANGED streamVars

NextMeasures ==
    \/ MakeMeasures
    \/ \E given \in BOOLEAN : MakeTies(given)
    \/ MakeTiesMeasure
    \/ MakeTiesElement
    \/ MakeTiesCount
    \/ MakeTiesReturn

SpecMeasures == InitMeasures /\ [][NextMeasures]_vars

\* a step of makeTies after its head
MakeTiesRun ==
    MakeTiesMeasure \/ MakeTiesElement \/ MakeTiesCount \/ MakeTiesReturn

\* makeTies, once called, runs on
SpecMeasuresFair == SpecMeasures /\ WF_vars(MakeTiesRun)

\* makeMeasures step by step.  The variables of a call: srcObj (src),
\* meterStream, clefObj, oMax, post (the measures made so far), o,
\* measureCount and lastTimeSignature, and the index k of the element of
\* offsetMap that is placed next; nid is the next unused id and low the
\* object that compares lowest.
MeasuresRun(src, low) ==
    [phase |-> "source", err |-> "", src |-> src, low |-> low,
     meterStream |-> <<>>, clefObj |-> "", oMax |-> 0, post |-> <<>>, o |-> 0,
     measureCount |-> 0, lastTimeSignature |-> <<>>, k |-> 1, nid |-> 1]

\* makeMeasures up to while True
makeMeasuresBegin(r) ==
    IF Len(r.src) = 0 THEN ScoreRaise(r, "ValueError")
    ELSE IF OMax(r.src) # SrcHighestTime(r.src, SrcSorted(r.src))
    THEN ScoreRaise(r, "StreamException")
    ELSE [r EXCEPT !.phase = "measuring",
                   !.meterStream = getTimeSignatures(r.src),
                   !.clefObj = bestClef(r.src),
                   !.oMax = OMax(r.src),
                   !.nid = 2 * Len(r.src) + 1]

\* (a variant without the test of the bar duration)
MeasuresTurnWith_noTest(r, this) ==
    IF this = <<>> THEN ScoreRaise(r, "AttributeError")
    ELSE [r EXCEPT !.post = Append(@, NewMeasure(r.post, r.o, this[1],
                                                 r.lastTimeSignature, r.nid, r.clefObj)),
                   !.nid = r.nid + 2,
                   !.lastTimeSignature = <<this[1].id>>,
                   !.o = r.o + this[1].bar,
                   !.phase = IF r.o + this[1].bar >= r.oMax THEN "populating"
                             ELSE "measuring",
                   !.measureCount = IF r.o + this[1].bar >= r.oMax THEN @ ELSE @ + 1]

\* one turn of while True; this is the meter found at o
MeasuresTurnWith(r, this) ==
    IF this = <<>> THEN ScoreRaise(r, "AttributeError")
    ELSE IF this[1].bar = 0 THEN ScoreRaise(r, "StreamException")
    ELSE [r EXCEPT !.post = Append(@, NewMeasure(r.post, r.o, this[1],
                                                 r.lastTimeSignature, r.nid, r.clefObj)),
                   !.nid = r.nid + 2,
                   !.lastTimeSignature = <<this[1].id>>,
                   !.o = r.o + this[1].bar,
                   !.phase = IF r.o + this[1].bar >= r.oMax THEN "populating"
                             ELSE "measuring",
                   !.measureCount = IF r.o + this[1].bar >= r.oMax THEN @ ELSE @ + 1]

makeMeasuresTurn(r) ==
    MeasuresTurnWith(r, getElementAtOrBefore(r.meterStream, r.o, r.low))

\* one turn of for start, end, e in offsetMap; i is the measure found
MeasuresPlaceInto(r, i) ==
    IF i = 0 THEN ScoreRaise(r, "StreamException")
    ELSE IF i = -1 THEN ScoreRaise(r, "AttributeError")
    ELSE [r EXCEPT !.post[i].list =
                       Append(@, [r.src[r.k] EXCEPT !.id = Len(r.src) + r.k,
                                                    !.off = r.src[r.k].off - r.post[i].off]),
                   !.k = r.k + 1]

makeMeasuresPlace(r) ==
    MeasuresPlaceInto(r, FindMeasure(r.post, r.src[r.k].off, 1, <<>>))

\* The Streams that makeMeasures is called on here hold notes of several
\* pitches, a chord and a rest as well
RunKinds ==
    { <<"Note", 1, -1, <<22>> >>, <<"Note", 1, -1, <<28>> >>,
      <<"Note", 1, -1, <<29>> >>, <<"Note", 1, -1, <<34>> >>,
      <<"Note", 6, -1, <<29>> >>, <<"Chord", 1, -1, <<34, 25, 25>> >>,
      <<"Rest", 1, -1, <<>> >>, <<"Clef", -1, -1, <<>> >>,
      <<"TimeSignature", -1, 0, <<>> >>, <<"TimeSignature", -1, 2, <<>> >>,
      <<"TimeSignature", -1, 3, <<>> >> }

RunList(n, f) ==
    [k \in 1..n |-> [Elem(k, f[k][1][1], f[k][2], f[k][1][2], f[k][1][3])
                        EXCEPT !.pitches = f[k][1][4]]]

IsRun(r) ==
    \E n \in 0..MaxSrc : \E f \in [1..n -> RunKinds \X SrcOffsets] :
        \E low \in LowOf(RunList(n, f)) : r = MeasuresRun(RunList(n, f), low)

InitRun == InitStreams(Empty) /\ IsRun(score)

MeasuresBegin ==
    /\ score.phase = "source"
    /\ score' = makeMeasuresBegin(score)
    /\ UNCHANGED streamVars

MeasuresTurn ==
    /\ score.phase = "measuring"
    /\ score' = makeMeasuresTurn(score)
    /\ UNCHANGED streamVars

MeasuresPlace ==
    /\ score.phase = "populating"
    /\ score.k <= Len(score.src)
    /\ score' = makeMeasuresPlace(score)
    /\ UNCHANGED streamVars

\* return post
MeasuresReturn ==
    /\ score.phase = "populating"
    /\ score.k > Len(score.src)
    /\ score' = [score EXCEPT !.phase = "measured"]
    /\ UNCHANGED streamVars

NextRun == MeasuresBegin \/ MeasuresTurn \/ MeasuresPlace \/ MeasuresReturn

SpecRun == InitRun /\ [][NextRun]_vars

\* makeMeasures, once called, runs on.  For the loop the pitches are of no
\* concern: the Streams are those that makeTies starts from.
IsLoopRun(r) ==
    \E n \in 0..MaxSrc : \E f \in [1..n -> SrcKinds \X SrcOffsets] :
        \E low \in LowOf(SrcList(n, f)) : r = MeasuresRun(SrcList(n, f), low)

InitLoop == InitStreams(Empty) /\ IsLoopRun(score)

SpecLoop ==
    InitLoop /\ [][NextRun]_vars
             /\ WF_vars(MeasuresTurn \/ MeasuresPlace \/ MeasuresReturn)

\* Layering.  _findLayering and _consolidateLayering work on a flat Stream,
\* here a list of element records, and on indices into its sorted list.
\* Indices start at 1 here, at 0 in the code.

\* flatStream.sorted for elements of the same priority: a stable sort by
\* offset; e is put behind the elements of acc that are not later
InsertByOffset(acc, e) ==
    SubSeq(acc, 1, Cardinality({k \in 1..Len(acc) : acc[k].off <= e.off}))
    \o <<e>>
    \o SubSeq(acc, Cardinality({k \in 1..Len(acc) : acc[k].off <= e.off}) + 1, Len(acc))

RECURSIVE SortedFrom(_, _, _)
SortedFrom(list, i, acc) ==
    IF i > Len(list) THEN acc
    ELSE SortedFrom(list, i + 1, InsertByOffset(acc, list[i]))

sortedList(list) == SortedFrom(list, 1, <<>>)

\* the durSpan of an element
DurSpanOf(e) ==
    IF ~HasDuration(e) THEN <<e.off, e.off>> ELSE <<e.off, e.off + e.dur>>

_getDurSpan(flatStream) == [i \in 1..Len(flatStream) |-> DurSpanOf(flatStream[i])]

\* durSpans = [a, b]; durSpans.sort()
SpanLeq(a, b) == a[1] < b[1] \/ (a[1] = b[1] /\ a[2] <= b[2])
SpansSorted(a, b) == IF SpanLeq(a, b) THEN <<a, b>> ELSE <<b, a>>

\* (a variant that takes a and b as they come)
_durSpanOverlap_unsorted(a, b, includeCoincidentBoundaries) ==
    IF includeCoincidentBoundaries THEN b[1] <= a[2] ELSE b[1] < a[2]

_durSpanOverlap(a, b, includeCoincidentBoundaries) ==
    IF includeCoincidentBoundaries
    THEN SpansSorted(a, b)[2][1] <= SpansSorted(a, b)[1][2]
    ELSE SpansSorted(a, b)[2][1] < SpansSorted(a, b)[1][2]

\* The inner loop of _findLayering for the element i, from j on: the lists
\* simultaneityMap[i] and overlapMap[i]
RECURSIVE SimultaneityRow(_, _, _)
SimultaneityRow(durSpanSorted, i, j) ==
    IF j > Len(durSpanSorted) THEN <<>>
    ELSE (IF j # i /\ durSpanSorted[i][1] = durSpanSorted[j][1] THEN <<j>> ELSE <<>>)
         \o SimultaneityRow(durSpanSorted, i, j + 1)

RECURSIVE OverlapRow(_, _, _, _)
OverlapRow(durSpanSorted, i, j, includeCoincidentBoundaries) ==
    IF j > Len(durSpanSorted) THEN <<>>
    ELSE (IF j # i /\ _durSpanOverlap(durSpanSorted[i], durSpanSorted[j],
                                      includeCoincidentBoundaries)
          THEN <<j>> ELSE <<>>)
         \o OverlapRow(durSpanSorted, i, j + 1, includeCoincidentBoundaries)

\* if not includeDurationless and flatStream[i].duration == None: continue
LayeringSkips(flatStream, i, includeDurationless) ==
    ~includeDurationless /\ ~HasDuration(flatStream[i])

\* the two maps for a sorted flatStream
LayeringMaps(flatStream, includeDurationless, includeCoincidentBoundaries) ==
    [simultaneityMap |->
        [i \in 1..Len(flatStream) |->
            IF LayeringSkips(flatStream, i, includeDurationless) THEN <<>>
            ELSE SimultaneityRow(_getDurSpan(flatStream), i, 1)],
     overlapMap |->
        [i \in 1..Len(flatStream) |->
            IF LayeringSkips(flatStream, i, includeDurationless) THEN <<>>
            ELSE OverlapRow(_getDurSpan(flatStream), i, 1,
                            includeCoincidentBoundaries)]]

_findLayering(flatStream, includeDurationless, includeCoincidentBoundaries) ==
    LayeringMaps(sortedList(flatStream), includeDurationless,
                 includeCoincidentBoundaries)

\* post of _consolidateLayering is a dictionary from offsets to lists of
\* elements, here a function from its keys to lists of ids.
\* for key in post.keys(): if elementObj in post[key]: the keys that hold
\* the element.  An element is stored only when no entry holds it, so there
\* is at most one such key and the order of post.keys() makes no difference.
KeysOf(post, id) ==
    {key \in DOMAIN post : \E n \in 1..Len(post[key]) : post[key][n] = id}

\* post[dstOffset].append(elementObj), with the entry made when it is new
Stored(post, dstOffset, id) ==
    IF dstOffset \in DOMAIN post
    THEN [post EXCEPT ![dstOffset] = Append(@, id)]
    ELSE post @@ (dstOffset :> <<id>>)

\* The state of the loops of _consolidateLayering: post and dstOffset
\* (<<>> is None)
Consolidated(post, dstOffset) == [post |-> post, dstOffset |-> dstOffset]

\* the offset that an element is stored at
DstOr(c, srcOffset) == IF c.dstOffset = <<>> THEN srcOffset ELSE c.dstOffset[1]

\* (a variant that does not look whether the element is stored)
ConsolidateIndex_again(c, srcOffset, id) ==
    Consolidated(Stored(c.post, DstOr(c, srcOffset), id), <<DstOr(c, srcOffset)>>)

\* one turn of for j in indices, for the element of id id
ConsolidateIndex(c, srcOffset, id) ==
    IF KeysOf(c.post, id) # {}
    THEN Consolidated(c.post, <<CHOOSE key \in KeysOf(c.post, id) : TRUE>>)
    ELSE Consolidated(Stored(c.post, DstOr(c, srcOffset), id),
                      <<DstOr(c, srcOffset)>>)

\* for j in indices, from the n-th index on
RECURSIVE ConsolidateIndices(_, _, _, _, _)
ConsolidateIndices(flatStream, indices, n, srcOffset, c) ==
    IF n > Len(indices) THEN c
    ELSE ConsolidateIndices(flatStream, indices, n + 1, srcOffset,
            ConsolidateIndex(c, srcOffset, flatStream[indices[n]].id))

\* the source element is stored unless an entry holds it
ConsolidateSrc(c, srcOffset, id) ==
    IF KeysOf(c.post, id) # {} THEN c.post
    ELSE Stored(c.post, DstOr(c, srcOffset), id)

\* one turn of for i in range(len(map))
ConsolidateElement(flatStream, map, i, post) ==
    IF Len(map[i]) = 0 THEN post
    ELSE ConsolidateSrc(
            ConsolidateIndices(flatStream, map[i], 1, flatStream[i].off,
                               Consolidated(post, <<>>)),
            flatStream[i].off, flatStream[i].id)

RECURSIVE ConsolidateLoop(_, _, _, _)
ConsolidateLoop(flatStream, map, i, post) ==
    IF i > Len(map) THEN post
    ELSE ConsolidateLoop(flatStream, map, i + 1,
                         ConsolidateElement(flatStream, map, i, post))

\* the empty dictionary
NoPost == [key \in {} |-> <<>>]

\* _consolidateLayering(flatStream, map) for a map as long as flatStream
_consolidateLayering(flatStream, map) ==
    ConsolidateLoop(sortedList(flatStream), map, 1, NoPost)

\* A run of the layering methods: the spans a and b that _durSpanOverlap is
\* called with and what it found, or the flat Stream, the two flags, the two
\* maps of _findLayering, the name of the map that was consolidated and the
\* dictionary post that came of it
Layers(phase, a, b, flatStream) ==
    [phase |-> phase, a |-> a, b |-> b, flatStream |-> flatStream,
     includeDurationless |-> TRUE, includeCoincidentBoundaries |-> FALSE,
     found |-> FALSE, simultaneityMap |-> <<>>, overlapMap |-> <<>>,
     map |-> "", post |-> NoPost]

\* the spans that are compared: short ones, points among them, and those of
\* Test.testOverlaps and of the doctest
SpanStarts == 0..3
SpanLengths == 0..3
Spans ==
    {<<s, s + d>> : s \in SpanStarts, d \in SpanLengths}
    \cup {<<0, 12>>, <<11, 14>>, <<0, 10>>, <<11, 12>>}

IsSpans(r) == \E a \in Spans, b \in Spans : r = Layers("spans", a, b, <<>>)

\* the flat Streams: notes of quarterLength 0, 1 and 3 and clefs, which have
\* no duration
MaxFlat == 3
FlatOffsets == {0, 1, 2}
FlatKinds == {<<"Note", 0>>, <<"Note", 1>>, <<"Note", 3>>, <<"Clef", -1>>}

FlatList(n, f) == [k \in 1..n |-> Elem(k, f[k][1][1], f[k][2], f[k][1][2], -1)]

IsFlatStream(r) ==
    \E n \in 0..MaxFlat : \E f \in [1..n -> FlatKinds \X FlatOffsets] :
        r = Layers("flat", <<>>, <<>>, FlatList(n, f))

InitLayering == InitStreams(Empty) /\ (IsSpans(score) \/ IsFlatStream(score))

DurSpanOverlap(includeCoincidentBoundaries) ==
    /\ score.phase = "spans"
    /\ score' = [score EXCEPT
                    !.phase = "compared",
                    !.includeCoincidentBoundaries = includeCoincidentBoundaries,
                    !.found = _durSpanOverlap(score.a, score.b,
                                              includeCoincidentBoundaries)]
    /\ UNCHANGED streamVars

FindLayering(includeDurationless, includeCoincidentBoundaries) ==
    /\ score.phase = "flat"
    /\ score' = [score EXCEPT
                    !.phase = "layered",
                    !.includeDurationless = includeDurationless,
                    !.includeCoincidentBoundaries = includeCoincidentBoundaries,
                    !.simultaneityMap =
                        _findLayering(score.flatStream, includeDurationless,
                                      includeCoincidentBoundaries).simultaneityMap,
                    !.overlapMap =
                        _findLayering(score.flatStream, includeDurationless,
                                      includeCoincidentBoundaries).overlapMap]
    /\ UNCHANGED streamVars

\* getSimultaneous and getOverlaps after _findLayering
ConsolidateLayering(map) ==
    /\ score.phase = "layered"
    /\ score' = [score EXCEPT
                    !.phase = "consolidated",
                    !.map = map,
                    !.post = _consolidateLayering(score.flatStream,
                                IF map = "simultaneityMap" THEN score.simultaneityMap
                                ELSE score.overlapMap)]
    /\ UNCHANGED streamVars

NextLayering ==
    \/ \E c \in BOOLEAN : DurSpanOverlap(c)
    \/ \E d \in BOOLEAN, c \in BOOLEAN : FindLayering(d, c)
    \/ \E map \in {"simultaneityMap", "overlapMap"} : ConsolidateLayering(map)

SpecLayering == InitLayering /\ [][NextLayering]_vars

-----------------------------------------------------------------------------
\* getElementAtOrBefore on its own: a Stream of a few elements in the order
\* of their insertion, offsets of both signs, and calls with any offset.
\* score is the Stream with the last call and its result.

MaxSearch == 3
SearchOffsets == -2 .. 2
SearchQueries == -2 .. 3

Search(list, low) ==
    [phase |-> "built", list |-> list, low |-> low, offset |-> 0,
     found |-> <<>>, calls |-> 0]

SearchList(n, f) == [i \in 1..n |-> Elem(i, "Note", f[i], 1, 0)]

InitSearch ==
    /\ InitStreams(Empty)
    /\ \E n \in 0..MaxSearch : \E f \in [1..n -> SearchOffsets] :
       \E low \in 1..MaxSearch :
           score = Search(SearchList(n, f), low)

MaxCalls == 2

\* a.getElementAtOrBefore(offset)
GetElementAtOrBefore(offset) ==
    /\ score.calls < MaxCalls
    /\ score' = [score EXCEPT !.phase = "found", !.offset = offset,
                    !.found = getElementAtOrBefore(score.list, offset, score.low),
                    !.calls = @ + 1]
    /\ UNCHANGED streamVars

NextSearch == \E offset \in SearchQueries : GetElementAtOrBefore(offset)

SpecSearch == InitSearch /\ [][NextSearch]_vars

\* makeMeasures of a Stream and of its sorted view.  src is the list of the
\* Stream, isSorted its mark; sorted holds the list of the view once
\* S.sorted was taken, own and view hold what S.makeMeasures() and
\* S.sorted.makeMeasures() gave.
View(src, low) ==
    [phase |-> "view", src |-> src, low |-> low, isSorted |-> SrcSorted(src),
     sorted |-> <<>>, own |-> <<>>, view |-> <<>>]

IsView(v) ==
    \E n \in 0..MaxSrc : \E f \in [1..n -> SrcKinds \X SrcOffsets] :
        \E low \in LowOf(SrcList(n, f)) : v = View(SrcList(n, f), low)

InitView == InitStreams(Empty) /\ IsView(score)

\* S.sorted: post = self.elements is the list of S itself and is sorted in
\* place; the view gets this list and is marked sorted, the mark of S stays
SortedView ==
    /\ score.sorted = <<>>
    /\ score' = [score EXCEPT !.src = sortedList(@),
                              !.sorted = <<[list |-> sortedList(score.src),
                                            isSorted |-> TRUE]>>]
    /\ UNCHANGED streamVars

\* S.makeMeasures()
MakeMeasuresOfStream ==
    /\ score.own = <<>>
    /\ score' = [score EXCEPT !.own = <<makeMeasures(score.src, score.isSorted, score.low)>>]
    /\ UNCHANGED streamVars

\* S.sorted.makeMeasures()
MakeMeasuresOfSorted ==
    /\ score.sorted # <<>>
    /\ score.view = <<>>
    /\ score' = [score EXCEPT !.view = <<makeMeasures(score.sorted[1].list,
                                                      score.sorted[1].isSorted, score.low)>>]
    /\ UNCHANGED streamVars

NextView == SortedView \/ MakeMeasuresOfStream \/ MakeMeasuresOfSorted

SpecView == InitView /\ [][NextView]_vars

----------------------------------------------------------------------------
\* the state after the step that is being taken
CurNext ==
    [elements |-> elements', ref |-> ref', sites |-> sites', parent |-> parent',
     isSorted |-> isSorted', isFlat |-> isFlat', cache |-> cache',
     unlinkedDuration |-> unlinkedDuration', alloc |-> alloc', err |-> FALSE]
lastNext == hist'[Len(hist')]
\* every operation of the run so far is one of names
HistOnly(names) == \A i \in 1 .. Len(hist) : hist[i].op \in names

----------------------------------------------------------------------------
\* What the aggregates are by definition, from the element list and the sites

RECURSIVE TrueHighestTime(_, _)
TrueDuration(st, e) ==
    IF IsStream(e)
    THEN IF st.unlinkedDuration[e] # <<>> THEN st.unlinkedDuration[e][1]
         ELSE TrueHighestTime(st, e)
    ELSE IF LeafDuration[e] = <<>> THEN 0 ELSE LeafDuration[e][1]
Ends(st, s) ==
    {getOffsetBySite(st, ElementsOf(st, s)[i], s) + TrueDuration(st, ElementsOf(st, s)[i]) :
        i \in {j \in 1 .. Len(ElementsOf(st, s)) : HasSite(st, ElementsOf(st, s)[j], s)}}
TrueHighestTime(st, s) ==
    IF Ends(st, s) = {} THEN 0
    ELSE CHOOSE m \in Ends(st, s) : \A x \in Ends(st, s) : x <= m
SiteOffsets(st, s) ==
    {getOffsetBySite(st, ElementsOf(st, s)[i], s) :
        i \in {j \in 1 .. Len(ElementsOf(st, s)) : HasSite(st, ElementsOf(st, s)[j], s)}}
TrueHighestOffset(st, s) ==
    IF SiteOffsets(st, s) = {} THEN 0
    ELSE CHOOSE m \in SiteOffsets(st, s) : \A x \in SiteOffsets(st, s) : x <= m
TrueLowestOffset(st, s) ==
    IF SiteOffsets(st, s) = {} THEN 0
    ELSE CHOOSE m \in SiteOffsets(st, s) : \A x \in SiteOffsets(st, s) : x >= m

----------------------------------------------------------------------------
\* C1: in every Stream reached by insert, append, pop, del and shiftElements,
\* and in every Stream returned by sorted or flat, highestTime is the maximum
\* of offset + duration over the elements, and 0 for an empty Stream.
C1_Ops == {"insert", "append", "pop", "delitem", "shiftElements", "sorted", "flat"}
C1_HighestTimeIsMax ==
    HistOnly(C1_Ops) =>
        \A s \in Live :
            /\ ~_getHighestTime(Cur, s).st.err
            /\ _getHighestTime(Cur, s).v = <<TrueHighestTime(Cur, s)>>

\* C2: reading S.sorted leaves S's element list and S.isSorted as they were,
\* and returns another Stream whose isSorted is True.
C2_SortedDoesNotMutate ==
    [][(lastNext.op = "sorted") =>
          /\ ElementsOf(CurNext, lastNext.s) = ElementsOf(Cur, lastNext.s)
          /\ isSorted'[lastNext.s] = isSorted[lastNext.s]
          /\ lastNext.r # lastNext.s
          /\ isSorted'[lastNext.r]]_vars

\* the operation before the last one
prev == IF Len(hist) < 2 THEN Op("init", 0, 0, <<>>) ELSE hist[Len(hist) - 1]
\* o is an element of Stream s
IsElement(st, o, s) == \E i \in 1 .. Len(ElementsOf(st, s)) : ElementsOf(st, s)[i] = o

\* C3: for an object that is in Streams A and B, an operation that sets its
\* offset in B (insert, append or insertAtIndex into B, B.shiftElements,
\* setOffsetBySite(B, ...)) leaves getOffsetBySite(A) as it was.
C3_SetsOffset == {"insert", "append", "insertAtIndex", "shiftElements", "setOffsetBySite"}
C3_SitesIndependent ==
    [][\A o \in Objs, A \in Live :
          (lastNext.op \in C3_SetsOffset /\ lastNext.s # A /\ HasSite(Cur, o, A)) =>
              /\ HasSite(CurNext, o, A)
              /\ getOffsetBySite(CurNext, o, A) = getOffsetBySite(Cur, o, A)]_vars
\* an object of Stream 1 at offset 1 has just been inserted into Stream 2 at 0,
\* or has just been moved there by Stream 2's shiftElements
C3_Witness ==
    \E o \in Leaves :
        /\ IsElement(Cur, o, 1) /\ IsElement(Cur, o, 2)
        /\ HasSite(Cur, o, 1) /\ HasSite(Cur, o, 2)
        /\ getOffsetBySite(Cur, o, 1) # getOffsetBySite(Cur, o, 2)
        /\ last.s = 2
        /\ \/ last.op = "insert" /\ last.args = <<getOffsetBySite(Cur, o, 2), o>>
           \/ last.op = "shiftElements"

----------------------------------------------------------------------------
\* the <<element, offset in s>> pairs of Stream s, in list order
Pairs(st, s) ==
    [i \in 1 .. Len(ElementsOf(st, s)) |->
        <<ElementsOf(st, s)[i], getOffsetBySite(st, ElementsOf(st, s)[i], s)>>]
\* the <<element, absolute offset>> pairs of the plain elements at any depth
\* below s, one per occurrence; base is the absolute offset of s
RECURSIVE AbsPairsFrom(_, _, _, _)
AbsPairsFrom(st, s, base, i) ==
    IF i > Len(ElementsOf(st, s)) THEN <<>>
    ELSE LET e == ElementsOf(st, s)[i]
             off == base + getOffsetBySite(st, e, s)
         IN (IF IsStream(e) THEN AbsPairsFrom(st, e, off, 1) ELSE <<(<<e, off>>)>>)
            \o AbsPairsFrom(st, s, base, i + 1)
AbsPairs(st, s) == AbsPairsFrom(st, s, 0, 1)
Count(seq, x) == Cardinality({i \in 1 .. Len(seq) : seq[i] = x})
SameBag(a, b) ==
    /\ Len(a) = Len(b)
    /\ \A i \in 1 .. Len(a) : Count(a, a[i]) = Count(b, a[i])
NoStreamIn(st, s) == \A i \in 1 .. Len(ElementsOf(st, s)) : ~IsStream(ElementsOf(st, s)[i])

\* C4: S.flat holds exactly the plain elements found at any depth below S,
\* one entry per occurrence and no Stream, each at its absolute offset (the
\* sum of the site offsets down its path); its isFlat is True.
C4_FlatContents ==
    (last.op = "flat") =>
        /\ NoStreamIn(Cur, last.r)
        /\ isFlat[last.r]
        /\ AllHaveSite(Cur, last.r)
        /\ SameBag(Pairs(Cur, last.r), AbsPairs(Cur, last.s))

\* C5: S.flat.flat holds the same multiset of (element, absolute offset) as
\* S.flat, and both have isFlat True.
C5_FlatIdempotent ==
    (last.op = "flat" /\ prev.op = "flat" /\ last.s = prev.r) =>
        /\ AllHaveSite(Cur, last.r)
        /\ SameBag(Pairs(Cur, last.r), Pairs(Cur, prev.r))
        /\ isFlat[last.r] /\ isFlat[prev.r]
\* the flat of the flat of Stream 1 has been taken, Stream 1 holding a
\* non-empty Stream and the flat an element away from its native offset
C5_Witness ==
    /\ last.op = "flat" /\ prev.op = "flat" /\ last.s = prev.r /\ prev.s = 1
    /\ \E i \in 1 .. Len(ElementsOf(Cur, 1)) :
           /\ IsStream(ElementsOf(Cur, 1)[i])
           /\ ElementsOf(Cur, ElementsOf(Cur, 1)[i]) # <<>>
    /\ \E i \in 1 .. Len(ElementsOf(Cur, prev.r)) :
           Pairs(Cur, prev.r)[i][2] # NativeOffset[Pairs(Cur, prev.r)[i][1]]

----------------------------------------------------------------------------
\* C6: flat, semiFlat, getElementsByClass and getElementsByOffset leave the
\* source as it was: its element list, isSorted, isFlat and cached aggregates
\* are unchanged, every offset registered in a Stream that existed before the
\* call is unchanged, and the same call made again returns the same
\* (element, offset) pairs.
C6_Derivations == {"flat", "semiFlat", "getElementsByClass", "getElementsByOffset"}
----------------------------------------------------------------------------
C7_HighestTimeRead ==
    _getHighestTime(setParent(locationsAdd(Cur, lastNext.args[2], lastNext.s,
                                           lastNext.args[1]),
                              lastNext.args[2], lastNext.s),
                    lastNext.s).v[1]
----------------------------------------------------------------------------
\* the duration an object reports: 0 when it has none
ReportedDuration(st, o) ==
    IF quarterLength(st, o).v = <<>> THEN 0 ELSE quarterLength(st, o).v[1]
RECURSIVE SumDurations(_, _, _)
SumDurations(st, others, i) ==
    IF i > Len(others) THEN 0
    ELSE ReportedDuration(st, others[i]) + SumDurations(st, others, i + 1)

\* C8: append([x1..xn]) places x1 at the highestTime the Stream had before the
\* call and each x(i+1) at the offset of x(i) plus the duration of x(i);
\* afterwards highestOffset is the offset of xn, highestTime has grown by the
\* sum of the appended durations, and isSorted has the value it had.
C8_AppendBackToBack ==
    [][(lastNext.op = "append") =>
          /\ getOffsetBySite(CurNext, lastNext.args[1], lastNext.s)
                 = _getHighestTime(Cur, lastNext.s).v[1]
          /\ \A i \in 1 .. (Len(lastNext.args) - 1) :
                 getOffsetBySite(CurNext, lastNext.args[i + 1], lastNext.s)
                     = getOffsetBySite(CurNext, lastNext.args[i], lastNext.s)
                       + ReportedDuration(CurNext, lastNext.args[i])
          /\ _getHighestOffset(CurNext, lastNext.s).v
                 = <<getOffsetBySite(CurNext, lastNext.args[Len(lastNext.args)], lastNext.s)>>
          /\ _getHighestTime(CurNext, lastNext.s).v
                 = <<_getHighestTime(Cur, lastNext.s).v[1]
                       + SumDurations(CurNext, lastNext.args, 1)>>
          /\ isSorted'[lastNext.s] = isSorted[lastNext.s]]_vars

----------------------------------------------------------------------------
\* no object occurs twice in the list of Stream s
Distinct(st, s) ==
    \A i, j \in 1 .. Len(ElementsOf(st, s)) :
        ElementsOf(st, s)[i] = ElementsOf(st, s)[j] => i = j

\* C9: after a structural mutation of a Stream nothing is cached, and the
\* next read of highestOffset and lowestOffset gives the maximum and the
\* minimum of the elements' offsets in this Stream (0 when it is empty); this
\* for a Stream whose elements are distinct objects with an offset in it.
C9_Mutations == {"insert", "append", "insertAtIndex", "setitem", "delitem", "pop",
                 "setElements", "shiftElements"}
C9_AggregatesRecomputed ==
    (last.op \in C9_Mutations /\ AllHaveSite(Cur, last.s) /\ Distinct(Cur, last.s)) =>
        /\ cache[last.s] = EmptyCache
        /\ _getHighestOffset(Cur, last.s).v = <<TrueHighestOffset(Cur, last.s)>>
        /\ _getLowestOffset(Cur, last.s).v = <<TrueLowestOffset(Cur, last.s)>>

\* C10: after insert, append, item assignment, del, pop and assignment to
\* elements, and in the results of flat and semiFlat, isFlat is True if and
\* only if no element of the Stream is a Stream.
C10_Ops == {"insert", "append", "setitem", "delitem", "pop", "setElements",
            "flat", "semiFlat"}
C10_IsFlatIffNoStream ==
    HistOnly(C10_Ops) => \A s \in Live : isFlat[s] <=> NoStreamIn(Cur, s)

----------------------------------------------------------------------------
\* The key the comparison of _getSorted sees for element o of Stream s
SortKey(st, s, o) == <<getOffsetBySite(st, o, s), priority[o]>>
\* the place of o in a list that holds it once
Pos(seq, o) == CHOOSE i \in 1 .. Len(seq) : seq[i] = o
\* Streams a and b hold the same set of (offset, object) pairs, each object once
SamePairs(st, a, b) ==
    /\ AllHaveSite(st, a) /\ AllHaveSite(st, b)
    /\ Distinct(st, a) /\ Distinct(st, b)
    /\ {Pairs(st, a)[i] : i \in 1 .. Len(Pairs(st, a))}
           = {Pairs(st, b)[i] : i \in 1 .. Len(Pairs(st, b))}

\* C11: when Stream 1 and then Stream 2 have been sorted and the two hold the
\* same set of (offset, object) pairs, the two results have the same element
\* order.
C11_SortOrderIndependent ==
    (prev.op = "sorted" /\ last.op = "sorted" /\ prev.s = 1 /\ last.s = 2
        /\ SamePairs(Cur, 1, 2))
    => ElementsOf(Cur, prev.r) = ElementsOf(Cur, last.r)

\* C11 as the code has it: under the same condition the two results have the
\* same sequence of (offset, priority) keys, two objects that differ in offset
\* or priority stand in the same order in both, and objects that share both
\* stand in the order the list of their Stream held them before the sort.
C11_SortOrderUpToTies ==
    [][(last.op = "sorted" /\ lastNext.op = "sorted" /\ last.s = 1 /\ lastNext.s = 2
          /\ SamePairs(CurNext, 1, 2))
       => /\ \A i \in 1 .. Len(ElementsOf(CurNext, lastNext.r)) :
                SortKey(CurNext, 1, ElementsOf(CurNext, last.r)[i])
                    = SortKey(CurNext, 2, ElementsOf(CurNext, lastNext.r)[i])
          /\ \A i, j \in 1 .. Len(ElementsOf(CurNext, lastNext.r)) :
                (i < j /\ SortKey(CurNext, 2, ElementsOf(CurNext, lastNext.r)[i])
                            # SortKey(CurNext, 2, ElementsOf(CurNext, lastNext.r)[j]))
                => Pos(ElementsOf(CurNext, last.r), ElementsOf(CurNext, lastNext.r)[i])
                     < Pos(ElementsOf(CurNext, last.r), ElementsOf(CurNext, lastNext.r)[j])
          /\ \A i, j \in 1 .. Len(ElementsOf(CurNext, lastNext.r)) :
                (i < j /\ SortKey(CurNext, 2, ElementsOf(CurNext, lastNext.r)[i])
                            = SortKey(CurNext, 2, ElementsOf(CurNext, lastNext.r)[j]))
                => Pos(ElementsOf(Cur, 2), ElementsOf(CurNext, lastNext.r)[i])
                     < Pos(ElementsOf(Cur, 2), ElementsOf(CurNext, lastNext.r)[j])]_vars

\* both Streams have been sorted, they hold the same pairs in different list
\* orders, and two of the objects share offset and priority
C11_Witness ==
    /\ prev.op = "sorted" /\ last.op = "sorted" /\ prev.s = 1 /\ last.s = 2
    /\ SamePairs(Cur, 1, 2)
    /\ ElementsOf(Cur, prev.r) # ElementsOf(Cur, last.r)
    /\ \E i, j \in 1 .. Len(ElementsOf(Cur, last.r)) :
           /\ i # j
           /\ SortKey(Cur, 2, ElementsOf(Cur, last.r)[i])
                  = SortKey(Cur, 2, ElementsOf(Cur, last.r)[j])

\* the place of the class of o in CLASS_SORT_ORDER, 0 for a class not in it
ClassRank(o) ==
    IF \E k \in 1 .. Len(CLASS_SORT_ORDER) : isClass(o, CLASS_SORT_ORDER[k])
    THEN CHOOSE k \in 1 .. Len(CLASS_SORT_ORDER) : isClass(o, CLASS_SORT_ORDER[k])
    ELSE 0

\* C12: in the result of sorted, of two elements of a listed class that share
\* an offset the one of the lower class rank comes first.
C12_ClassRankOrder ==
    (last.op = "sorted") =>
        \A i, j \in 1 .. Len(ElementsOf(Cur, last.r)) :
            (/\ i < j
             /\ ClassRank(ElementsOf(Cur, last.r)[i]) # 0
             /\ ClassRank(ElementsOf(Cur, last.r)[j]) # 0
             /\ getOffsetBySite(Cur, ElementsOf(Cur, last.r)[i], last.r)
                    = getOffsetBySite(Cur, ElementsOf(Cur, last.r)[j], last.r))
            => ClassRank(ElementsOf(Cur, last.r)[i]) <= ClassRank(ElementsOf(Cur, last.r)[j])

\* C13: a step S.sorted returns a Stream with the elements of S (the same
\* multiset), each at the offset it has in S, in non-decreasing order of that
\* offset and, among equal offsets, of priority; the list of no Stream that is
\* an element of S changes.
C13_SortedContents ==
    [][(lastNext.op = "sorted") =>
          /\ SameBag(ElementsOf(CurNext, lastNext.r), ElementsOf(Cur, lastNext.s))
          /\ \A i \in 1 .. Len(ElementsOf(CurNext, lastNext.r)) :
                getOffsetBySite(CurNext, ElementsOf(CurNext, lastNext.r)[i], lastNext.r)
                    = getOffsetBySite(Cur, ElementsOf(CurNext, lastNext.r)[i], lastNext.s)
          /\ \A i, j \in 1 .. Len(ElementsOf(CurNext, lastNext.r)) :
                i < j =>
                    \/ SortKey(Cur, lastNext.s, ElementsOf(CurNext, lastNext.r)[i])[1]
                           < SortKey(Cur, lastNext.s, ElementsOf(CurNext, lastNext.r)[j])[1]
                    \/ /\ SortKey(Cur, lastNext.s, ElementsOf(CurNext, lastNext.r)[i])[1]
                              = SortKey(Cur, lastNext.s, ElementsOf(CurNext, lastNext.r)[j])[1]
                       /\ SortKey(Cur, lastNext.s, ElementsOf(CurNext, lastNext.r)[i])[2]
                              <= SortKey(Cur, lastNext.s, ElementsOf(CurNext, lastNext.r)[j])[2]
          /\ \A n \in Live :
                IsElement(Cur, n, lastNext.s) =>
                    ElementsOf(CurNext, n) = ElementsOf(Cur, n)]_vars

\* a Stream has been sorted whose list held, out of order, two elements at one
\* offset with different priorities, and a Stream whose own list is not in
\* offset order
C13_Witness ==
    /\ last.op = "sorted"
    /\ \E i, j \in 1 .. Len(ElementsOf(Cur, last.r)) :
           /\ i < j
           /\ getOffsetBySite(Cur, ElementsOf(Cur, last.r)[i], last.r)
                  = getOffsetBySite(Cur, ElementsOf(Cur, last.r)[j], last.r)
           /\ priority[ElementsOf(Cur, last.r)[i]] < priority[ElementsOf(Cur, last.r)[j]]
    /\ \E i \in 1 .. Len(ElementsOf(Cur, last.r)) :
           /\ IsStream(ElementsOf(Cur, last.r)[i])
           /\ Len(ElementsOf(Cur, ElementsOf(Cur, last.r)[i])) = 2
           /\ getOffsetBySite(Cur, ElementsOf(Cur, ElementsOf(Cur, last.r)[i])[1],
                              ElementsOf(Cur, last.r)[i])
                  > getOffsetBySite(Cur, ElementsOf(Cur, ElementsOf(Cur, last.r)[i])[2],
                                    ElementsOf(Cur, last.r)[i])

----------------------------------------------------------------------------
\* the Streams that are elements of Stream s, and s with the Streams below it
NestedIn(st, s) == {x \in 1 .. st.alloc : IsElement(st, x, s)}
Below(st, s) == {s} \cup NestedIn(st, s) \cup UNION {NestedIn(st, x) : x \in NestedIn(st, s)}

\* in state stN object c is a copy made of object e of state stO: an object
\* that was not in use in stO, of the same class; for a Stream, with a list no
\* Stream of stO holds, as long as the list of e, whose entries are distinct
\* objects and copies of the entries of e at the offsets these have in e
RECURSIVE CopyOf(_, _, _, _)
CopyOf(stO, stN, c, e) ==
    IF ~IsStream(e)
    THEN c \in FreeCopies(stO, e)
    ELSE /\ IsStream(c) /\ c > stO.alloc /\ c <= stN.alloc
         /\ \A x \in (1 .. stN.alloc) \ {c} : stN.ref[x] # stN.ref[c]
         /\ Len(ElementsOf(stN, c)) = Len(ElementsOf(stO, e))
         /\ Distinct(stN, c)
         /\ \A i \in 1 .. Len(ElementsOf(stO, e)) :
               /\ CopyOf(stO, stN, ElementsOf(stN, c)[i], ElementsOf(stO, e)[i])
               /\ HasSite(stN, ElementsOf(stN, c)[i], c)
               /\ getOffsetBySite(stN, ElementsOf(stN, c)[i], c)
                      = getOffsetBySite(stO, ElementsOf(stO, e)[i], e)

\* between states stO and stN the lists of the Streams in X and the offsets of
\* their elements in them are the same
SameListsAndOffsets(stO, stN, X) ==
    \A x \in X :
        /\ ElementsOf(stN, x) = ElementsOf(stO, x)
        /\ \A i \in 1 .. Len(ElementsOf(stO, x)) :
               HasSite(stO, ElementsOf(stO, x)[i], x) =>
                   /\ HasSite(stN, ElementsOf(stO, x)[i], x)
                   /\ getOffsetBySite(stN, ElementsOf(stO, x)[i], x)
                          = getOffsetBySite(stO, ElementsOf(stO, x)[i], x)

C14_Mutations == {"insert", "pop", "shiftElements"}

\* C14: a step deepcopy(S) returns a copy of S in the sense of CopyOf; and a
\* later insert, pop or shiftElements on the copy or a Stream below it leaves
\* the lists and the offsets of S and the Streams below S as they were, and
\* one on S or a Stream below it those of the copy and the Streams below it.
C14_DeepcopyIndependent ==
    [][/\ (lastNext.op = "deepcopy") => CopyOf(Cur, CurNext, lastNext.r, lastNext.s)
       /\ (lastNext.op \in C14_Mutations) =>
             \A k \in 1 .. Len(hist) :
                 (hist[k].op = "deepcopy") =>
                     /\ (lastNext.s \in Below(Cur, hist[k].r)) =>
                            SameListsAndOffsets(Cur, CurNext, Below(Cur, hist[k].s))
                     /\ (lastNext.s \in Below(Cur, hist[k].s)) =>
                            SameListsAndOffsets(Cur, CurNext, Below(Cur, hist[k].r))]_vars

\* Stream 1, which holds a Stream that is not empty, has been copied and the
\* copy of that Stream has then been shifted
C14_Witness ==
    /\ prev.op = "deepcopy" /\ prev.s = 1
    /\ last.op = "shiftElements" /\ last.s \in NestedIn(Cur, prev.r)
    /\ ElementsOf(Cur, last.s) # <<>>
    /\ \E x \in NestedIn(Cur, 1) : Len(ElementsOf(Cur, x)) = Len(ElementsOf(Cur, last.s))


----------------------------------------------------------------------------
\* makeMeasures and makeTies

\* the time signatures of the source that are at or before the offset o, and
\* of these the ones nearest to o
MetersUpTo(src, o) ==
    {k \in 1..Len(src) : src[k].cls = "TimeSignature" /\ src[k].off <= o}

NearestMeters(src, o) ==
    {k \in MetersUpTo(src, o) : \A j \in MetersUpTo(src, o) : src[j].off <= src[k].off}

\* the bar durations that the meter active at o may have: the one of a
\* nearest time signature, the default one when there is none
ActiveBars(src, o) ==
    IF MetersUpTo(src, o) = {} THEN {DefaultBar}
    ELSE {src[k].bar : k \in NearestMeters(src, o)}

\* makeMeasures has returned the measures of score
Measured == score.phase = "measured" /\ score.call = "makeMeasures"

RECURSIVE GoverningBar(_, _)
GoverningBar(ms, i) ==
    IF i = 0 THEN -1
    ELSE IF timeSignature(ms[i]) # <<>> THEN timeSignature(ms[i])[1].bar
    ELSE GoverningBar(ms, i - 1)

\* where the span of the measure i of ms ends: where the next measure
\* starts, for the last measure its start plus the bar duration
SpanEnd(ms, i) ==
    IF i < Len(ms) THEN ms[i + 1].off ELSE ms[i].off + GoverningBar(ms, i)

\* the places <<i, j>> of ms that hold the copy of the source element k
PlacesOf(sc, k) ==
    {p \in {<<i, j>> : i \in 1..Len(sc.ms), j \in 1..(2 + Len(sc.src))} :
        /\ p[2] <= Len(sc.ms[p[1]].list)
        /\ sc.ms[p[1]].list[p[2]].id = Len(sc.src) + k}

\* C20: when makeMeasures returns, the copy of every source element is in
\* exactly one measure, the span [mStart, mEnd) of this measure contains the
\* offset of the element in the source, and the offset of the copy in the
\* measure is that offset - mStart; makeMeasures raises nothing but
\* StreamException when the source has elements.
C20_ElementPlacement ==
    /\ Measured =>
          \A k \in 1..Len(score.src) :
              /\ Cardinality(PlacesOf(score, k)) = 1
              /\ \A p \in PlacesOf(score, k) :
                    /\ score.ms[p[1]].off <= score.src[k].off
                    /\ score.src[k].off < SpanEnd(score.ms, p[1])
                    /\ score.ms[p[1]].list[p[2]].off
                          = score.src[k].off - score.ms[p[1]].off
                    /\ score.ms[p[1]].list[p[2]].off >= 0
                    /\ score.ms[p[1]].list[p[2]].off < GoverningBar(score.ms, p[1])
                    /\ [score.ms[p[1]].list[p[2]]
                          EXCEPT !.id = k, !.off = score.src[k].off] = score.src[k]
    /\ (score.phase = "raised" /\ score.call = "makeMeasures" /\ Len(score.src) > 0)
          => score.err = "StreamException"

\* makeMeasures has put an element into a measure after the first one, at
\* an offset other than 0 and other than its offset in the source
C20_Witness ==
    /\ Measured
    /\ \E k \in 1..Len(score.src) : \E p \in PlacesOf(score, k) :
          /\ p[1] > 1
          /\ score.ms[p[1]].list[p[2]].off > 0

\* makeMeasures has raised StreamException for an element that starts where
\* the last measure ends
C20_WitnessRaise ==
    /\ score.phase = "raised" /\ score.call = "makeMeasures"
    /\ Len(score.ms) > 0
    /\ SpanEnd(score.ms, Len(score.ms)) >= OMax(score.src)
    /\ \E k \in 1..Len(score.src) :
          score.src[k].off >= SpanEnd(score.ms, Len(score.ms))

\* the element that the iterator of makeTies is at
CurrentElement == score.ms[score.m].list[score.index]

\* makeTies is at an element that crosses the end of its measure, and the
\* step that is being taken is the body of the loop for this element
SplitStep ==
    /\ score.phase = "tying" /\ score.m # 0
    /\ score.index <= Len(score.ms[score.m].list)
    /\ HasDuration(CurrentElement)
    /\ CurrentElement.off < score.mEnd
    /\ CurrentElement.off + CurrentElement.dur > score.mEnd
    /\ score'.phase = "tying"
    /\ score'.index = score.index + 1

\* the sum of the durations of the pieces of the object o
RECURSIVE SumList(_, _)
SumList(list, o) ==
    IF Len(list) = 0 THEN 0
    ELSE (IF Head(list).orig = o /\ HasDuration(Head(list)) THEN Head(list).dur ELSE 0)
         + SumList(Tail(list), o)

RECURSIVE SumMeasures(_, _)
SumMeasures(ms, o) ==
    IF Len(ms) = 0 THEN 0
    ELSE SumList(Head(ms).list, o) + SumMeasures(Tail(ms), o)

\* e is the first part of the element old of a measure that ends at B
IsFirstPart(e, old, B) ==
    /\ e.id = old.id
    /\ e.off = old.off
    /\ e.dur = B - old.off
    /\ (old.cls = "Note" => e.tie = "start")

\* e is the remainder of old, an object that was not there before
IsRemainder(e, old, B, nid) ==
    /\ e.id >= nid
    /\ e.orig = old.orig
    /\ e.cls = old.cls
    /\ e.dur = old.dur - (B - old.off)
    /\ e.off = 0

\* the measures of the Stream sc that begin at the offset o
MeasuresAt(sc, o) ==
    {x \in 1..Len(sc.ms) : sc.ms[x].off = o /\ \E i \in 1..Len(sc.post) : sc.post[i] = x}

\* what the body of the loop does to the element that crosses
SplitDone ==
    /\ \E j \in 1..Len(score'.ms[score.m].list) :
          IsFirstPart(score'.ms[score.m].list[j], CurrentElement, score.mEnd)
    /\ \E x \in MeasuresAt(score', score.ms[score.m].off + score.mEnd) :
          IsRemainder(score'.ms[x].list[1], CurrentElement, score.mEnd, score.nid)
    /\ \A o \in 0..score'.nid :
          SumMeasures(score'.ms, o) = SumMeasures(score.ms, o)

\* C15: when makeTies is at an element that crosses the end of its measure,
\* B after the start of the measure, the element keeps its place and gets
\* the duration B - offset and, if it is a Note, a start tie; its remainder
\* is a new object with the rest of the duration, the first element, at
\* offset 0, of a measure of the Stream that begins where the measure ends;
\* the durations of the pieces of every object add up to what they added
\* up to before.
C15_Split == [][SplitStep => SplitDone]_vars

\* the measures of the Stream sc in the order of its list
MeasureList(sc) == [i \in 1..Len(sc.post) |-> sc.ms[sc.post[i]]]

\* the number of the pieces of the object o in the measures ms
RECURSIVE CountList(_, _)
CountList(list, o) ==
    IF Len(list) = 0 THEN 0
    ELSE (IF Head(list).orig = o /\ HasDuration(Head(list)) THEN 1 ELSE 0)
         + CountList(Tail(list), o)

RECURSIVE CountMeasures(_, _)
CountMeasures(ms, o) ==
    IF Len(ms) = 0 THEN 0
    ELSE CountList(Head(ms).list, o) + CountMeasures(Tail(ms), o)

\* C16: when makeTies has returned, every element with a duration ends at
\* or before the end of its measure: its offset in the measure plus its
\* duration is at most the bar duration that governs the measure.
C16_NoCrossing ==
    score.phase = "tied" =>
        \A i \in 1..Len(score.post) :
            \A j \in 1..Len(score.ms[score.post[i]].list) :
                HasDuration(score.ms[score.post[i]].list[j]) =>
                    score.ms[score.post[i]].list[j].off
                      + score.ms[score.post[i]].list[j].dur
                        <= GoverningBar(MeasureList(score), i)

\* makeTies has returned a Stream in which one object is in three pieces,
\* the last of them in a measure that makeTies made
C16_Witness ==
    /\ score.phase = "tied"
    /\ \E o \in 0..score.nid : CountMeasures(score.ms, o) >= 3
    /\ \E i \in 1..Len(score.post) :
          /\ score.ms[score.post[i]].number > 2
          /\ Len(score.ms[score.post[i]].list) > 0

\* makeTies is at an element with a duration in a measure of bar duration 0
AtBarZero ==
    /\ score.phase = "tying" /\ score.m # 0
    /\ score.index <= Len(score.ms[score.m].list)
    /\ score.mEnd = 0
    /\ HasDuration(CurrentElement) /\ CurrentElement.dur > 0

\* C17: makeTies, once called on a Stream of measures, returns or raises
\* after finitely many steps, although measures are added to the list that
\* it walks; at an element with a duration in a measure of bar duration 0
\* it raises StreamException.
C17_Terminates ==
    /\ (score.phase = "tying") ~> (score.phase \in {"tied", "raised"})
    /\ [][AtBarZero => score'.phase = "raised" /\ score'.err = "StreamException"]_vars

\* makeTies has returned after it went through measures that it had added
\* to the Stream itself
C17_Witness ==
    /\ score.phase = "tied"
    /\ score.mCount = Len(score.post)
    /\ \E i \in 1..Len(score.post) :
          /\ score.ms[score.post[i]].number > 2
          /\ score.post[i] > 2

\* the bar durations that the meter of the meterStream may have at the
\* offset o: the one of a nearest time signature at or before o, the
\* default one when the meterStream is empty
TimelineBars(meters, o) ==
    IF Len(meters) = 0 THEN {DefaultBar}
    ELSE {meters[k].bar : k \in NearestMeters(meters, o)}

\* makeTies is at an element that crosses the end of the measure that is the
\* last one of the Stream
LastCrossing == SplitStep /\ score.m = score.post[Len(score.post)]

\* the measure x of sc has the bar duration B of the measure before it when
\* the meterStream has this meter at its offset, and else its own time
\* signature with the meter of the meterStream
MeterFrom(sc, x, B) ==
    \E T \in TimelineBars(sc.meters, sc.ms[x].off) :
        \/ T = B /\ timeSignature(sc.ms[x]) = <<>>
        \/ T # B /\ timeSignature(sc.ms[x]) # <<>>
                  /\ timeSignature(sc.ms[x])[1].bar = T

\* the last measure of the Stream after the step is a new one and follows
\* the measure that makeTies is at
FollowingMeasureMade ==
    /\ \A i \in 1..Len(score.post) : score.post[i] # score'.post[Len(score'.post)]
    /\ score'.ms[score'.post[Len(score'.post)]].off
          = score.ms[score.m].off + score.mEnd
    /\ score'.ms[score'.post[Len(score'.post)]].number
          = score.ms[score.m].number + 1
    /\ MeterFrom(score', score'.post[Len(score'.post)], score.mEnd)

\* C18: when makeTies is at an element that crosses the end of the last
\* measure of the Stream, it adds a new measure to the Stream: its offset is
\* the offset of the last measure plus the bar duration of that measure, its
\* number the number of that measure plus 1, and it has a time signature of
\* its own exactly when the meterStream has another meter at its offset.
C18_FollowingMeasure == [][LastCrossing => FollowingMeasureMade]_vars

\* makeMeasures is at the head of a turn of its loop and the meter found at
\* o has the bar duration 0
RunAtBarZero ==
    /\ score.phase = "measuring"
    /\ getElementAtOrBefore(score.meterStream, score.o, score.low) # <<>>
    /\ getElementAtOrBefore(score.meterStream, score.o, score.low)[1].bar = 0

\* C21: makeMeasures, once it is in its loop, returns or raises; a turn of
\* the loop that finds a meter of bar duration 0 raises StreamException and
\* leaves the measures as they were; every other turn moves o on.
C21_Terminates ==
    /\ (score.phase = "measuring") ~> (score.phase \in {"measured", "raised"})
    /\ [][RunAtBarZero => /\ score'.phase = "raised"
                          /\ score'.err = "StreamException"
                          /\ score'.post = score.post]_vars
    /\ [][(score.phase = "measuring" /\ ~RunAtBarZero /\ score'.phase # "raised")
             => score'.o > score.o /\ Len(score'.post) = Len(score.post) + 1]_vars

\* makeMeasures has returned more than two measures
C21_Witness == score.phase = "measured" /\ Len(score.post) > 2

\* makeMeasures has raised at a bar duration 0 after it made a measure
C21_WitnessRaise ==
    /\ score.phase = "raised" /\ score.err = "StreamException"
    /\ Len(score.post) > 0
    /\ getElementAtOrBefore(score.meterStream, score.o, score.low)[1].bar = 0

\* the step by step makeMeasures ends as makeMeasures does
RunAsMakeMeasures ==
    score.phase \in {"measured", "raised"} =>
        /\ makeMeasures(score.src, SrcSorted(score.src), score.low).err = score.err
        /\ makeMeasures(score.src, SrcSorted(score.src), score.low).ms = score.post

\* the pitches of the notes and chords of list, from index i on
RECURSIVE PitchedContent(_, _)
PitchedContent(list, i) ==
    IF i > Len(list) THEN <<>>
    ELSE (IF list[i].cls \in {"Note", "Chord"} THEN list[i].pitches ELSE <<>>)
         \o PitchedContent(list, i + 1)

\* the height of a pitch with its bonus: 3 more above A4, 3 less below G3
Adjusted(p) == p + (IF p > 33 THEN 3 ELSE 0) - (IF p < 24 THEN 3 ELSE 0)

RECURSIVE SumAdjusted(_, _)
SumAdjusted(ps, i) == IF i > Len(ps) THEN 0 ELSE Adjusted(ps[i]) + SumAdjusted(ps, i + 1)

\* treble when there is no pitched content or its mean height is above 28
FitClef(ps) ==
    IF Len(ps) = 0 \/ SumAdjusted(ps, 1) > 28 * Len(ps) THEN "TrebleClef"
    ELSE "BassClef"

\* the places <<i, j>> of the measures of post that hold a clef that is no
\* copy of an element of src
MadeClefs(src, post) ==
    {p \in UNION {{<<i, j>> : j \in 1..Len(post[i].list)} : i \in 1..Len(post)} :
        /\ IsClef(post[p[1]].list[p[2]])
        /\ post[p[1]].list[p[2]].orig \notin 1..Len(src)}

\* makeMeasures has made its first measure
FirstMeasureMade ==
    score.phase \in {"measuring", "populating", "measured"} /\ Len(score.post) > 0

\* C22: once makeMeasures has made the first measure, and when it returns,
\* the measures hold exactly one clef that is no copy of a source element;
\* it is in the first measure at offset 0, it is what Measure.clef gives for
\* the first measure, and it is a treble clef when the source has no pitched
\* content or the mean height (with bonus) of its pitches is above 28, a
\* bass clef otherwise.
C22_BestClef ==
    FirstMeasureMade =>
        /\ clef(score.post[1]) # <<>>
        /\ clef(score.post[1])[1].cls = FitClef(PitchedContent(score.src, 1))
        /\ clef(score.post[1])[1].off = 0
        /\ \E j \in 1..Len(score.post[1].list) :
              /\ score.post[1].list[j] = clef(score.post[1])[1]
              /\ MadeClefs(score.src, score.post) = {<<1, j>>}

\* makeMeasures has returned several measures, the first with a bass clef,
\* for a source whose pitches are not all low
C22_Witness ==
    /\ score.phase = "measured" /\ Len(score.post) > 1
    /\ clef(score.post[1])[1].cls = "BassClef"
    /\ \E k \in 1..Len(score.src) : \E n \in 1..Len(score.src[k].pitches) :
          score.src[k].pitches[n] > 28

\* the first measure holds the copy of a clef of the source at offset 0 as
\* well
C22_WitnessCopy ==
    /\ score.phase = "measured"
    /\ \E j \in 1..Len(score.post[1].list) :
          /\ IsClef(score.post[1].list[j]) /\ score.post[1].list[j].off = 0
          /\ score.post[1].list[j].orig \in 1..Len(score.src)

\* the smaller and the larger of two numbers
Lower(x, y) == IF x <= y THEN x ELSE y
Higher(x, y) == IF x <= y THEN y ELSE x

\* max(start_a, start_b) < min(end_a, end_b)
SpansShare(a, b) == Higher(a[1], b[1]) < Lower(a[2], b[2])

\* the end of one span is the start of the other
SpansTouch(a, b) == a[2] = b[1] \/ b[2] = a[1]

\* _durSpanOverlap was called
Compared == score.phase = "compared"

\* C23: the overlap test of two spans is true exactly when the later start is
\* before the earlier end, and with coincident boundaries included also when
\* the end of one span is the start of the other; points are spans too.
C23_Overlap ==
    Compared =>
        score.found = (\/ SpansShare(score.a, score.b)
                       \/ score.includeCoincidentBoundaries /\ SpansTouch(score.a, score.b))

\* the same for two spans of which none is a point, and the test gives the
\* same in either order of the arguments
C23_OverlapOfSpans ==
    Compared =>
        /\ (score.a[1] < score.a[2] /\ score.b[1] < score.b[2]) =>
              score.found = (\/ SpansShare(score.a, score.b)
                             \/ score.includeCoincidentBoundaries
                                /\ SpansTouch(score.a, score.b))
        /\ score.found = _durSpanOverlap(score.b, score.a,
                                         score.includeCoincidentBoundaries)

\* the indices in a list of a map
Members(row) == {row[n] : n \in 1..Len(row)}

\* _findLayering has returned its maps
Layered == score.phase = "layered"

\* no list of map holds the index of its own element
SelfExcluded(map) == \A i \in 1..Len(map) : i \notin Members(map[i])

Symmetric(map) ==
    \A i \in 1..Len(map), j \in 1..Len(map) :
        j \in Members(map[i]) <=> i \in Members(map[j])

\* the element i of the sorted Stream has no list and is in no list of map
InNoList(map, i) ==
    /\ map[i] = <<>>
    /\ \A j \in 1..Len(map) : i \notin Members(map[j])

\* the indices of the elements without duration in the sorted Stream
Durationless ==
    {i \in 1..Len(score.flatStream) : ~HasDuration(sortedList(score.flatStream)[i])}

\* C24: the two maps of _findLayering never hold an index in its own list and
\* are symmetric, for both values of both flags; with includeDurationless
\* False an element without duration has an empty list and is in no list.
C24_Maps ==
    Layered =>
        /\ SelfExcluded(score.simultaneityMap) /\ SelfExcluded(score.overlapMap)
        /\ Symmetric(score.simultaneityMap) /\ Symmetric(score.overlapMap)
        /\ ~score.includeDurationless =>
              \A i \in Durationless :
                  /\ InNoList(score.simultaneityMap, i)
                  /\ InNoList(score.overlapMap, i)

\* what holds: no index is in its own list, a skipped element has empty
\* lists, and both maps are symmetric among the elements that are not skipped
C24_MapsOfOwners ==
    Layered =>
        /\ SelfExcluded(score.simultaneityMap) /\ SelfExcluded(score.overlapMap)
        /\ \A i \in 1..Len(score.flatStream) :
              LayeringSkips(sortedList(score.flatStream), i, score.includeDurationless)
                  => score.simultaneityMap[i] = <<>> /\ score.overlapMap[i] = <<>>
        /\ \A i \in 1..Len(score.flatStream), j \in 1..Len(score.flatStream) :
              (/\ ~LayeringSkips(sortedList(score.flatStream), i, score.includeDurationless)
               /\ ~LayeringSkips(sortedList(score.flatStream), j, score.includeDurationless))
              => /\ j \in Members(score.simultaneityMap[i])
                      <=> i \in Members(score.simultaneityMap[j])
                 /\ j \in Members(score.overlapMap[i])
                      <=> i \in Members(score.overlapMap[j])

\* _consolidateLayering has returned post for the map that was chosen
ConsolidatedMap ==
    IF score.map = "simultaneityMap" THEN score.simultaneityMap ELSE score.overlapMap

\* how often the element of id id is in the lists of post
RECURSIVE TimesIn(_, _, _)
TimesIn(post, keys, id) ==
    IF keys = {} THEN 0
    ELSE Cardinality({n \in 1..Len(post[CHOOSE k \in keys : TRUE]) :
                        post[CHOOSE k \in keys : TRUE][n] = id})
         + TimesIn(post, keys \ {CHOOSE k \in keys : TRUE}, id)

\* the offset of the element of id id in the Stream
OffsetOfId(flatStream, id) ==
    flatStream[CHOOSE k \in 1..Len(flatStream) : flatStream[k].id = id].off

\* the element i is in a list of map
Listed(map, i) == \E j \in 1..Len(map) : i \in Members(map[j])

\* every element with a list that is not empty is in post once, an element
\* that is in a list only at most once, an element without relation not at
\* all; an element is in the entry of the elements of its list; the key of an
\* entry is the lowest offset of its elements
Clustered(flatStream, map, post) ==
    /\ \A i \in 1..Len(map) :
          /\ map[i] # <<>> => TimesIn(post, DOMAIN post, flatStream[i].id) = 1
          /\ Listed(map, i) => TimesIn(post, DOMAIN post, flatStream[i].id) = 1
          /\ (map[i] = <<>> /\ ~Listed(map, i))
                => TimesIn(post, DOMAIN post, flatStream[i].id) = 0
    /\ \A i \in 1..Len(map) : \A j \in Members(map[i]) :
          KeysOf(post, flatStream[i].id) = KeysOf(post, flatStream[j].id)
    /\ \A key \in DOMAIN post :
          /\ \E n \in 1..Len(post[key]) : OffsetOfId(flatStream, post[key][n]) = key
          /\ \A n \in 1..Len(post[key]) : OffsetOfId(flatStream, post[key][n]) >= key

-----------------------------------------------------------------------------
\* C26, C27: getElementAtOrBefore

OffsetsUpTo(list, q) == {list[i].off : i \in {j \in 1..Len(list) : list[j].off <= q}}

Greatest(S) == CHOOSE x \in S : \A y \in S : y <= x

AtOrBefore(list, q, found) ==
    IF OffsetsUpTo(list, q) = {} THEN found = <<>>
    ELSE /\ found # <<>>
         /\ \E i \in 1..Len(list) : list[i] = found[1]
         /\ found[1].off = Greatest(OffsetsUpTo(list, q))

\* C26: getElementAtOrBefore(q) returns an element of the Stream whose offset
\* is the greatest offset <= q, for offsets of either sign and any order of
\* insertion, and None exactly when no element has an offset <= q
C26_AtOrBefore ==
    score.phase = "found" => AtOrBefore(score.list, score.offset, score.found)

NoneNegative(list) == \A i \in 1..Len(list) : list[i].off >= 0

\* what holds of getElementAtOrBefore: the result is the element of C26 when
\* no element of the Stream is at a negative offset; an element at a negative
\* offset is found only by a call with exactly its offset
C26_AtOrBeforeFromZero ==
    score.phase = "found" =>
        /\ NoneNegative(score.list) =>
               AtOrBefore(score.list, score.offset, score.found)
        /\ AtOrBefore(SelectSeq(score.list,
                                LAMBDA e : e.off >= 0 \/ e.off = score.offset),
                      score.offset, score.found)

C26_WitnessFromZero ==
    /\ score.phase = "found" /\ NoneNegative(score.list) /\ Len(score.list) = 3
    /\ score.found # <<>> /\ score.found[1].off < score.offset
    /\ score.list[1].off > score.list[2].off

FirstAt(list, o) == list[CHOOSE i \in 1..Len(list) :
                            list[i].off = o /\ \A j \in 1..(i - 1) : list[j].off # o]

\* C27: of several elements at the greatest offset <= q, getElementAtOrBefore
\* returns the one that comes first in the elements of the Stream
C27_FirstOfTies ==
    (score.phase = "found" /\ NoneNegative(score.list) /\ score.found # <<>>) =>
        score.found[1] = FirstAt(score.list, score.found[1].off)

\* what holds of ties: the result is the one of the elements at the greatest
\* offset that compares lowest as an object, whatever its place in the Stream,
\* and a second call with the same offset returns the same element
C27_LowestOfTies ==
    [][(score.phase = "found" /\ score'.offset = score.offset) =>
           score'.found = score.found]_vars

C27_LowOfTies ==
    (score.phase = "found" /\ score.found # <<>>) =>
        \A i \in 1..Len(score.list) :
            (score.list[i].off = score.found[1].off /\ score.list[i] # score.found[1])
                => ObjLess(score.low, score.found[1].id, score.list[i].id)

-----------------------------------------------------------------------------
\* C28: getElementsByClass

InstanceOfOne(o, classFilterList) ==
    \E k \in 1 .. Len(classFilterList) : isClass(o, classFilterList[k])

ByClassReturned == hist' # hist /\ last'.op = "getElementsByClass"

ByClassResult(s, r, classFilterList) ==
    /\ r > alloc
    /\ \A x \in 1 .. alloc : ref[x] # ref'[r]
    /\ elements'[ref'[r]] =
           SelectSeq(elements[ref[s]], LAMBDA o : InstanceOfOne(o, classFilterList))
    /\ \A i \in 1 .. Len(elements'[ref'[r]]) :
           /\ HasSite(Cur, elements'[ref'[r]][i], s)
           /\ sites'[elements'[ref'[r]][i]][r] = sites[elements'[ref'[r]][i]][s]
           /\ sites'[elements'[ref'[r]][i]][s] = sites[elements'[ref'[r]][i]][s]

\* C28: getElementsByClass(types) returns a new Stream that holds, in the
\* order of the source, exactly the elements of the source that are instances
\* of at least one of the types, each as often as the source holds it also
\* when it is an instance of several of the types, at the offset it has in
\* the source
C28_ByClass ==
    [][ByClassReturned =>
           ByClassResult(last'.s, last'.r, ClassFilters[last'.args[1]])]_vars

\* a Stream with a note and another element, filtered by two classes of
\* which the note is an instance
C28_Witness ==
    /\ last.op = "getElementsByClass" /\ last.args = <<2>>
    /\ Len(elements[ref[last.r]]) >= 1
    /\ Len(elements[ref[last.s]]) > Len(elements[ref[last.r]])
    /\ \E i \in 1 .. Len(elements[ref[last.r]]) :
           sites[elements[ref[last.r]][i]][last.r] > 0

-----------------------------------------------------------------------------
\* C29: getElementsByOffset

ByOffsetReturned == hist' # hist /\ last'.op = "getElementsByOffset"

\* the end of element o of Stream s: its offset in s and its duration, if any
EndIn(s, o) ==
    sites[o][s] + (IF IsStream(o) THEN _getDuration(Cur, o).v[1]
                   ELSE IF LeafDuration[o] = <<>> THEN 0 ELSE LeafDuration[o][1])

Within(s, o, args) ==
    /\ sites[o][s] >= args[1]
    /\ IF args[3] = 1
       THEN (IF args[4] = 1 THEN sites[o][s] ELSE EndIn(s, o)) <= args[2]
       ELSE (IF args[4] = 1 THEN sites[o][s] ELSE EndIn(s, o)) < args[2]

ByOffsetResult(s, r, args) ==
    /\ elements'[ref'[r]] = SelectSeq(elements[ref[s]], LAMBDA o : Within(s, o, args))
    /\ \A i \in 1 .. Len(elements'[ref'[r]]) :
           sites'[elements'[ref'[r]][i]][r] = sites[elements'[ref'[r]][i]][s]

\* C29: getElementsByOffset(start, end) returns exactly the elements at an
\* offset o >= start of which, with onsetOnly, the offset, and without it the
\* end (the offset plus the duration, the offset for an element without
\* duration), is <= end when the end boundary is included and < end when it is
\* not, each at its offset in the source
C29_ByOffset ==
    [][ByOffsetReturned => ByOffsetResult(last'.s, last'.r, last'.args)]_vars

\* a call on the ends of the elements that returns a note which ends at the
\* boundary and leaves out another element
C29_Witness ==
    /\ last.op = "getElementsByOffset" /\ last.args[3] = 1 /\ last.args[4] = 0
    /\ Len(elements[ref[last.s]]) > Len(elements[ref[last.r]])
    /\ \E i \in 1 .. Len(elements[ref[last.r]]) :
           /\ elements[ref[last.r]][i] = -1
           /\ sites[-1][last.r] + 2 = last.args[2]

\* a call on the onsets that leaves out an element at the end boundary
C29_WitnessOnset ==
    /\ last.op = "getElementsByOffset" /\ last.args[3] = 0 /\ last.args[4] = 1
    /\ \E i \in 1 .. Len(elements[ref[last.s]]) :
           /\ sites[elements[ref[last.s]][i]][last.s] = last.args[2]
           /\ \A j \in 1 .. Len(elements[ref[last.r]]) :
                  elements[ref[last.r]][j] # elements[ref[last.s]][i]

-----------------------------------------------------------------------------
\* C30: semiFlat

\* the <<element, absolute offset>> pairs of all that is found at any depth
\* below s, the Streams included, one per occurrence
RECURSIVE SemiAbsPairsFrom(_, _, _, _)
SemiAbsPairsFrom(st, s, base, i) ==
    IF i > Len(ElementsOf(st, s)) THEN <<>>
    ELSE Bind(ElementsOf(st, s)[i], LAMBDA e :
         Bind(base + getOffsetBySite(st, e, s), LAMBDA off :
            <<(<<e, off>>)>>
            \o (IF IsStream(e) THEN SemiAbsPairsFrom(st, e, off, 1) ELSE <<>>)
            \o SemiAbsPairsFrom(st, s, base, i + 1)))

SemiAbsPairs(st, s) == SemiAbsPairsFrom(st, s, 0, 1)

NonStreams(pairs) == SelectSeq(pairs, LAMBDA p : ~IsStream(p[1]))

SemiFlatContents(s, r) ==
    /\ AllHaveSite(Cur, r)
    /\ SameBag(Pairs(Cur, r), SemiAbsPairs(Cur, s))

AsFlat ==
    (last.op = "flat" /\ prev.op = "semiFlat" /\ last.s = prev.s) =>
        /\ AllHaveSite(Cur, last.r) /\ AllHaveSite(Cur, prev.r)
        /\ SameBag(NonStreams(Pairs(Cur, prev.r)), Pairs(Cur, last.r))

\* C30: S.semiFlat holds every element found at any depth below S at its
\* absolute offset, and every nested Stream at its absolute offset; its
\* entries that are no Streams are, as a multiset, those of S.flat
C30_SemiFlat ==
    /\ (last.op = "semiFlat") => SemiFlatContents(last.s, last.r)
    /\ AsFlat

OncePerObject(pairs) ==
    \A i, j \in 1 .. Len(pairs) : pairs[i][1] = pairs[j][1] => i = j

\* what holds of semiFlat: the contents are those of C30 when no object is
\* found twice below S; the comparison with flat holds in every case
C30_SemiFlatOfDistinct ==
    /\ (last.op = "semiFlat" /\ OncePerObject(SemiAbsPairs(Cur, last.s))) =>
           SemiFlatContents(last.s, last.r)
    /\ AsFlat

C30_WitnessOfDistinct ==
    /\ last.op = "semiFlat" /\ OncePerObject(SemiAbsPairs(Cur, last.s))
    /\ \E i \in 1 .. Len(ElementsOf(Cur, last.r)) :
           /\ IsStream(ElementsOf(Cur, last.r)[i])
           /\ getOffsetBySite(Cur, ElementsOf(Cur, last.r)[i], last.r) > 0
           /\ ElementsOf(Cur, ElementsOf(Cur, last.r)[i]) # <<>>

-----------------------------------------------------------------------------
\* C31: sites and elements

\* C31: an object has a site for Stream S exactly while it is an element of
\* S: none after it was removed by pop or del, one whenever it is in the
\* element list of S, however it got there
C31_SiteWhileElement ==
    \A s \in Own : \A o \in Objs : HasSite(Cur, o, s) <=> IsElement(Cur, o, s)

\* what holds of the sites: pop, del and item assignment leave every site of
\* every object as it was, and an element that insert, append or
\* insertAtIndex has put into S has a site for S
C31_SitesKept ==
    [][/\ (hist' # hist /\ lastNext.op \in {"pop", "delitem", "setitem"}) =>
              sites' = sites
       /\ (hist' # hist /\ lastNext.op = "insert") =>
              HasSite(CurNext, lastNext.args[2], lastNext.s)
       /\ (hist' # hist /\ lastNext.op = "append") =>
              \A i \in 1 .. Len(lastNext.args) :
                  HasSite(CurNext, lastNext.args[i], lastNext.s)]_vars

-----------------------------------------------------------------------------
\* C32: the Duration of a Stream

DurationSet(s) == hist' # hist /\ lastNext.op = "setDuration" /\ lastNext.s = s

\* s.duration = D: duration is D, or the highestTime if D is None, and
\* highestTime is what it was
AssignedIsReturned(s) ==
    DurationSet(s) =>
        /\ lastNext.args # <<>> => _getDuration(CurNext, s).v = lastNext.args
        /\ (lastNext.args = <<>> /\ ~_getHighestTime(CurNext, s).st.err) =>
               _getDuration(CurNext, s).v = _getHighestTime(CurNext, s).v
        /\ _getHighestTime(CurNext, s).v = _getHighestTime(Cur, s).v

\* whatever is done next, an explicit Duration stays
AssignedStays(s) ==
    (unlinkedDuration[s] # <<>> /\ ~DurationSet(s)) =>
        _getDuration(CurNext, s).v = unlinkedDuration[s]

\* without an explicit Duration the duration is the highestTime
Linked(s) ==
    (unlinkedDuration'[s] = <<>> /\ ~_getHighestTime(CurNext, s).st.err) =>
        _getDuration(CurNext, s).v = _getHighestTime(CurNext, s).v

\* C32: an explicit Duration given to a Stream is what duration returns,
\* whatever its elements are and whatever is inserted later, and highestTime
\* is not changed by it; with None the duration is again the highestTime of
\* the Stream, after every further mutation
C32_Duration ==
    [][\A s \in Own : AssignedIsReturned(s) /\ AssignedStays(s) /\ Linked(s)]_vars

\* a Stream with an explicit Duration other than its highestTime has been
\* inserted into
C32_Witness ==
    /\ last.op = "insert" /\ unlinkedDuration[last.s] = <<1>>
    /\ _getHighestTime(Cur, last.s).v # <<1>>
    /\ prev.op = "setDuration" /\ prev.s = last.s

\* None has been assigned to a Stream that had an explicit Duration
C32_WitnessNone ==
    /\ last.op = "setDuration" /\ last.args = <<>>
    /\ prev.op = "setDuration" /\ prev.args = <<1>> /\ prev.s = last.s
    /\ _getHighestTime(Cur, last.s).v # <<1>>

-----------------------------------------------------------------------------
\* C33: isSorted

C33_Ops == {"insert", "append", "pop", "delitem", "shiftElements", "setitem",
            "sorted", "flat"}

InOrder(st, s) ==
    \A i, j \in 1 .. Len(ElementsOf(st, s)) :
        (i < j /\ HasSite(st, ElementsOf(st, s)[i], s)
               /\ HasSite(st, ElementsOf(st, s)[j], s)) =>
            getOffsetBySite(st, ElementsOf(st, s)[i], s)
                <= getOffsetBySite(st, ElementsOf(st, s)[j], s)

\* C33: in every Stream reached by insert, append, pop, del, shiftElements,
\* item assignment and reads of sorted and flat, isSorted = True implies that
\* the elements are in non-decreasing order of their offsets in the Stream
C33_SortedInOrder ==
    HistOnly(C33_Ops) => \A s \in Live : isSorted[s] => InOrder(Cur, s)

-----------------------------------------------------------------------------
\* C34: the list of the sorted result

\* the step is a mutation of Stream a made right after b = a.sorted or
\* a = b.sorted
AfterSorted(a, b) ==
    /\ hist' # hist /\ lastNext.op \in {"insert", "append", "pop"}
    /\ last.op = "sorted" /\ {last.s, last.r} = {a, b} /\ a # b
    /\ lastNext.s = a

\* C34: the Stream returned by S.sorted does not share its list with S: an
\* insert, append or pop on S leaves the length and the order of the result
\* and its cached aggregates as they were, and a mutation of the result
\* leaves S as it was
C34_SortedOwnList ==
    [][\A a, b \in StreamIds :
          AfterSorted(a, b) =>
              /\ ElementsOf(CurNext, b) = ElementsOf(Cur, b)
              /\ cache'[b] = cache[b]]_vars

\* what holds of the sorted result: it has the list of S itself, so a
\* mutation of one of the two is seen in the other, while the cached
\* aggregates and isSorted of the other stay as they were
C34_SortedSharedList ==
    [][\A a, b \in StreamIds :
          AfterSorted(a, b) =>
              /\ ref[a] = ref[b]
              /\ ElementsOf(CurNext, b) = ElementsOf(CurNext, a)
              /\ cache'[b] = cache[b] /\ isSorted'[b] = isSorted[b]]_vars

-----------------------------------------------------------------------------
\* C35: highestOffset and lowestOffset

\* the step leaves the list of Stream a and the offsets of its elements in a
\* as they were
SameOffsetsIn(a) ==
    /\ ElementsOf(CurNext, a) = ElementsOf(Cur, a)
    /\ AllHaveSite(Cur, a) /\ AllHaveSite(CurNext, a)
    /\ \A i \in 1 .. Len(ElementsOf(Cur, a)) :
           getOffsetBySite(CurNext, ElementsOf(Cur, a)[i], a)
               = getOffsetBySite(Cur, ElementsOf(Cur, a)[i], a)

\* C35: S.highestOffset and S.lowestOffset depend only on the offsets that
\* the elements of S have in S: a step that leaves these as they are, as an
\* insert of an element of S into another Stream or a flat, sorted or
\* getElementsByClass that holds it, leaves both values as they are
C35_OffsetsInStream ==
    [][\A a \in Own :
          SameOffsetsIn(a) =>
              /\ _getHighestOffset(CurNext, a).v = _getHighestOffset(Cur, a).v
              /\ _getLowestOffset(CurNext, a).v = _getLowestOffset(Cur, a).v]_vars

Least(S) == CHOOSE x \in S : \A y \in S : x <= y

OffsetsIn(st, a) ==
    {getOffsetBySite(st, ElementsOf(st, a)[i], a) : i \in 1 .. Len(ElementsOf(st, a))}

\* what holds of the two values: in a Stream of which nothing is cached, and
\* whose elements all have the Stream as their parent, they are the greatest
\* and the least of the offsets in the Stream if isSorted tells the order
C35_OffsetsAtParent ==
    \A a \in Own :
        (/\ ElementsOf(Cur, a) # <<>> /\ AllHaveSite(Cur, a)
         /\ cache[a] = EmptyCache
         /\ isSorted[a] => InOrder(Cur, a)
         /\ \A i \in 1 .. Len(ElementsOf(Cur, a)) : parent[ElementsOf(Cur, a)[i]] = a) =>
            /\ _getHighestOffset(Cur, a).v = <<Greatest(OffsetsIn(Cur, a))>>
            /\ _getLowestOffset(Cur, a).v = <<Least(OffsetsIn(Cur, a))>>

-----------------------------------------------------------------------------
\* C36: getTimeSignatures

\* makeMeasures has called getTimeSignatures of the source
MetersTaken == score.phase # "source" /\ score.err = ""

SourceMeters(src) == SelectSeq(src, LAMBDA e : e.cls = "TimeSignature")

AtZero(list) == SelectSeq(list, LAMBDA e : e.off = 0)

Defaults(list) == SelectSeq(list, LAMBDA e : e = DefaultTimeSignature)

\* C36: getTimeSignatures returns the time signatures of the Stream at their
\* offsets, and one default meter at offset 0 exactly when the Stream has no
\* time signature at offset 0, in whatever order they were inserted; so there
\* is one meter at offset 0 when the Stream has at most one there
C36_TimeSignatures ==
    MetersTaken =>
        /\ SelectSeq(score.meterStream, LAMBDA e : e # DefaultTimeSignature)
               = SourceMeters(score.src)
        /\ Len(Defaults(score.meterStream))
               = (IF AtZero(SourceMeters(score.src)) = <<>> THEN 1 ELSE 0)
        /\ Len(AtZero(SourceMeters(score.src))) <= 1 =>
               Len(AtZero(score.meterStream)) = 1

\* what holds of getTimeSignatures: the time signatures of the Stream are
\* returned at their offsets, and the default is added exactly when there is
\* none or when the first of them in the order of the list is later than 0
C36_TimeSignaturesByFirst ==
    MetersTaken =>
        /\ SelectSeq(score.meterStream, LAMBDA e : e # DefaultTimeSignature)
               = SourceMeters(score.src)
        /\ Len(Defaults(score.meterStream))
               = (IF \/ SourceMeters(score.src) = <<>>
                     \/ SourceMeters(score.src)[1].off > 0 THEN 1 ELSE 0)

-----------------------------------------------------------------------------
\* C37: the measures that makeTies creates

Tied == score.phase = "tied"

\* C37: makeTies adds each measure that it creates to the result once, also
\* when several elements of the last measure cross its end: in the result no
\* measure is twice in the list, the offsets of the measures differ, and
\* every remainder is put into another measure than the one it was split from
C37_MeasuresOnce ==
    [][/\ Tied' => \A i, j \in 1..Len(score'.post) :
                      \/ i = j
                      \/ /\ score'.post[i] # score'.post[j]
                         /\ score'.ms[score'.post[i]].off # score'.ms[score'.post[j]].off
       /\ SplitStep => score.mNext # score.m]_vars

\* what holds of the measures in the result: two entries of the list at one
\* offset are one measure
C37_MeasuresOfOneOffset ==
    Tied => \A i, j \in 1..Len(score.post) :
                score.ms[score.post[i]].off = score.ms[score.post[j]].off =>
                    score.post[i] = score.post[j]


\* makeMeasures has left the while loop with its measures and has raised in
\* the population of the measures: 'cannot place element'
CannotPlace ==
    /\ score.phase = "raised" /\ score.call = "makeMeasures"
    /\ score.err = "StreamException"
    /\ Len(score.ms) > 0

\* the source of makeMeasures has elements, every start offset lies in
\* [0, highestTime] and every time signature has a bar duration above 0
Spanned(src) ==
    /\ Len(src) > 0
    /\ \A k \in 1..Len(src) :
          /\ 0 <= src[k].off
          /\ src[k].off <= SrcHighestTime(src, SrcSorted(src))
          /\ src[k].cls = "TimeSignature" => src[k].bar > 0

\* C38: for a source with elements whose start offsets all lie in
\* [0, highestTime] and whose bar durations are all above 0, makeMeasures
\* does not raise 'cannot place element': every element is in the span of a
\* measure.
C38_MeasuresCover ==
    Spanned(score.src) => ~CannotPlace

\* What holds: when in addition every element starts before the highest end
\* of the source, makeMeasures does not raise 'cannot place element'.
C38_MeasuresCoverBelowEnd ==
    (Spanned(score.src) /\ \A k \in 1..Len(score.src) : score.src[k].off < OMax(score.src))
        => ~CannotPlace


\* S.makeMeasures() and S.sorted.makeMeasures() have been called, and the
\* first has returned
BothCalled == score.own # <<>> /\ score.view # <<>> /\ score.own[1].err = ""

\* where the copy of the source element of id e is in the measures ms: the
\* set of <<measure number, offset in the measure>>
PlacesIn(ms, e) ==
    {<<ms[p[1]].number, ms[p[1]].list[p[2]].off>> :
        p \in {q \in (1..Len(ms)) \X (1..(2 + MaxSrc + 1)) :
                  /\ q[2] <= Len(ms[q[1]].list)
                  /\ ms[q[1]].list[q[2]].orig = e
                  /\ ms[q[1]].list[q[2]].id # e}}

SameMeasures(a, b) ==
    /\ Len(a.ms) = Len(b.ms)
    /\ \A e \in 1..(MaxSrc + 1) : PlacesIn(a.ms, e) = PlacesIn(b.ms, e)

\* C39: whenever S.makeMeasures() returns, S.sorted.makeMeasures() returns
\* as well, with the same number of measures and with every element in the
\* measure of the same number at the same offset.
C39_SortedViewMeasures ==
    BothCalled => /\ score.view[1].err = ""
                  /\ SameMeasures(score.own[1], score.view[1])

\* What holds: when the Stream has no time signature and both calls return,
\* the measures are as many and every element has the same measure number
\* and offset in both results.
C39_SortedViewMeasuresOfDefault ==
    (/\ BothCalled /\ score.view[1].err = ""
     /\ \A k \in 1..Len(score.src) : score.src[k].cls # "TimeSignature")
        => SameMeasures(score.own[1], score.view[1])

====
